---- MODULE Spec2Model ----
(***************************************************************************)
(* State-machine model of qr3n/FastAPIProject1: the Management API        *)
(* (table booking, passwordless authentication, business, dish and table   *)
(* administration, the Telegram bot manager) and the Bot Worker (bot       *)
(* registry, webhook host, AI callback).                                   *)
(*                                                                         *)
(* Sequential specifications run every handler as one atomic action.       *)
(* Race specifications split a handler at its await points, so that two    *)
(* requests interleave exactly where the event loop may switch tasks.      *)
(***************************************************************************)
EXTENDS Integers, Sequences, FiniteSets, TLC

VARIABLES
    tables,     \* Table rows: id -> [capacity, status]
    bookings,   \* TableBooking rows in insertion order (index = primary key)
    now,        \* wall clock, seconds
    codes,      \* VerificationCode rows in insertion order
    users,      \* User rows in insertion order
    sessions,   \* Session rows: set of records
    nextSid,    \* number of sessions ever created (fresh ids and tokens)
    procs,      \* in-flight requests of the race specifications
    resp,       \* the response of the last completed handler
    businesses, \* Business rows: id -> [state, owner, token, active, name]
    dishes,     \* Dish rows: id -> [state, business, title, image]
    uploads,    \* names of the files in the upload directory
    hooks,      \* bot tokens whose webhook is set at Telegram
    mgmtCache,  \* cache keys bot_token:{token}: token -> business id
    pending,    \* messages on bot_worker:reload not yet consumed
    bots,       \* a worker's BotRegistry.bots: token -> business id
    shut,       \* tokens of BotRegistry.bots whose bot session is closed
    botCache,   \* cache keys bot:{token}: token -> business id
    bizCache,   \* cache keys business_bot:{id}: business id -> token
    wk,         \* the worker's running coroutines
    outbox,     \* Telegram messages delivered by the AI callback, in order
    tgUsers,    \* TGUser rows: telegram id -> [state, thread]
    aiPosts     \* payloads posted to the AI endpoint: [user, thread]

vars == <<tables, bookings, now, codes, users, sessions, nextSid, procs, resp,
          businesses, dishes, uploads, hooks, mgmtCache, pending, bots, shut,
          botCache, bizCache, wk, outbox, tgUsers, aiPosts>>

bookVars == <<tables, bookings>>
authVars == <<now, codes, users, sessions, nextSid>>
bizVars == <<businesses, dishes, uploads, hooks, mgmtCache, pending>>
chatVars == <<tgUsers, aiPosts>>
workerVars == <<bots, shut, botCache, bizCache, wk, outbox, chatVars>>
botVars == <<bizVars, workerVars>>

(***************************************************************************)
(* Bounds of the model.                                                    *)
(***************************************************************************)
MaxBookings == 2        \* TableBooking rows ever inserted

TableIds    == {1, 2}                   \* Table rows that exist
AnyTableId  == TableIds \cup {3}        \* 3: an id of no table
Dates       == {0, 1}
Times       == {0, 1}                   \* booking_time, in slots of a day
Durations   == {1, 2}                   \* duration_minutes: Field(gt=0)
Guests      == {1, 3}                   \* num_guests: Field(gt=0)
KnownTg     == {7}                      \* telegram_id of the TGUser rows
AnyTg       == KnownTg \cup {8}         \* 8: a telegram_id never seen
Owners      == {"alice", "bob"}
Procs       == {1, 2}

MaxCodes    == 2        \* VerificationCode rows stored at one time
AttemptsCap == 3        \* failed attempts counted on one code

MAX_ATTEMPTS == 3
RATE_LIMIT_MINUTES == 1
VERIFICATION_CODE_EXPIRY == 600
SESSION_MAX_AGE == 86400 * 30
FAILED_LIMIT == 5

Emails      == {"a@x.io"}
Phones      == {"+15550001"}
Contacts    == Emails \cup Phones
CodeValues  == {"111111", "222222"}     \* six-digit codes a client types
Generated   == {"111111"}               \* codes generate_verification_code draws
\* What a client may type: the two values above and one that is never issued.
TypedValues == CodeValues \cup {"000000"}
\* Moments at which requests arrive: around the rate-limit window and the
\* code expiry, and around the session expiry.
CodeInstants    == {0, 61, 601}
SessionInstants == {0, 2592000, 2592001}
SendInstants    == {0, 60, 61, 121, 601}
RaceInstants    == {0, 1, 60, 61}
\* Tokens a client may present; 0 is never issued.
Tokens      == 0 .. MaxCodes
NULL        == "null"

DayLen == Cardinality(Times)            \* slots per calendar date

\* The owner of business b, and of the tables with the ids of business b.
OwnerOf(t) == IF t % 2 = 1 THEN "alice" ELSE "bob"

\* Table.business: the ids of the tables of business 1 are odd, those of
\* business 2 even; table t of TableIds was created in business t.
TableBiz(t) == IF t % 2 = 1 THEN 1 ELSE 2

InitTables ==
    [t \in TableIds |->
        [capacity |-> t, status |-> "available", active |-> TRUE, number |-> 1]]

BookingRequests ==
    [table : AnyTableId, tg : AnyTg, guests : Guests,
     date : Dates, time : Times, dur : Durations]

Idle == [pc |-> "idle"]

\* Telegram accounts that write to the bots, and their TGUser rows.
TgIds == {7, 8}

\* thread_id is NULL until the first forwarded text message.
NoThread == <<>>

\* f"thread_{user.telegram_id}_{int(datetime.utcnow().timestamp())}"
ThreadId(u, t) == <<"thread", u, t>>

AbsentChat == [state |-> "absent", thread |-> NoThread]

NoChats == [u \in TgIds |-> AbsentChat]

Resp(op, arg, result) == [op |-> op, arg |-> arg, result |-> result]

(***************************************************************************)
(* TableService.book_table                                                 *)
(***************************************************************************)
Combine(d, t) == d * DayLen + t

BStart(b) == Combine(b.date, b.time)

BEnd(b) == BStart(b) + b.dur

Intersects_StartOnly(r, b) == ~(BEnd(r) <= BStart(b) \/ BStart(r) >= BStart(b))

\* Mutation: closed intervals, so that touching bookings collide.
Intersects_Closed(r, b) == ~(BEnd(r) < BStart(b) \/ BStart(r) > BEnd(b))

Intersects(r, b) == ~(BEnd(r) <= BStart(b) \/ BStart(r) >= BEnd(b))

ScanRows_Cancelled(bks, r) ==
    {i \in DOMAIN bks :
        /\ bks[i].table = r.table
        /\ bks[i].cancelled
        /\ bks[i].date = r.date}

ScanRows(bks, r) ==
    {i \in DOMAIN bks :
        /\ bks[i].table = r.table
        /\ ~bks[i].cancelled
        /\ bks[i].date = r.date}

HasConflict(bks, r) == \E i \in ScanRows(bks, r) : Intersects(r, bks[i])

BookPrecheck(tbls, r) ==
    IF r.table \notin DOMAIN tbls THEN "NotFound"
    ELSE IF r.guests > tbls[r.table].capacity THEN "BadRequest"
    ELSE IF r.tg \notin KnownTg THEN "NotFound"
    ELSE "pass"

\* seen: history field, the number of rows that existed when the overlap
\* scan of the creating request ran.
NewBooking(r, seen) ==
    [table |-> r.table, tg |-> r.tg, guests |-> r.guests, date |-> r.date,
     time |-> r.time, dur |-> r.dur, cancelled |-> FALSE, seen |-> seen]

MarkBooked(tbls, t) == [tbls EXCEPT ![t].status = "booked"]

BookTable(r) ==
    LET pre == BookPrecheck(tables, r) IN
    /\ IF pre # "pass"
       THEN /\ resp' = Resp("book", NULL, pre)
            /\ UNCHANGED bookVars
       ELSE IF HasConflict(bookings, r)
       THEN /\ resp' = Resp("book", NULL, "Conflict")
            /\ UNCHANGED bookVars
       ELSE /\ Len(bookings) < MaxBookings
            /\ bookings' = Append(bookings, NewBooking(r, Len(bookings)))
            /\ tables' = MarkBooked(tables, r.table)
            /\ resp' = Resp("book", NULL, "Created")
    /\ UNCHANGED <<authVars, procs, botVars>>

(***************************************************************************)
(* TableService.cancel_booking                                             *)
(***************************************************************************)
\* Mutation: a non-cancelled booking of any table keeps the status.
ActiveOnTable_AnyTable(bks, t) == \E i \in DOMAIN bks : ~bks[i].cancelled

ActiveOnTable(bks, t) == \E i \in DOMAIN bks : bks[i].table = t /\ ~bks[i].cancelled

CancelCheck(bks, id, u) ==
    IF id \notin DOMAIN bks THEN "NotFound"
    ELSE IF OwnerOf(bks[id].table) # u THEN "AccessDenied"
    ELSE IF bks[id].cancelled THEN "BadRequest"
    ELSE "pass"

CancelBooking(id, u) ==
    LET pre == CancelCheck(bookings, id, u) IN
    /\ IF pre # "pass"
       THEN /\ resp' = Resp("cancel", NULL, pre)
            /\ UNCHANGED bookVars
       ELSE LET bks == [bookings EXCEPT ![id].cancelled = TRUE]
                t   == bookings[id].table
            IN /\ bookings' = bks
               /\ tables' = IF ActiveOnTable(bks, t) THEN tables
                            ELSE [tables EXCEPT ![t].status = "available"]
               /\ resp' = Resp("cancel", NULL, "ok")
    /\ UNCHANGED <<authVars, procs, botVars>>

(***************************************************************************)
(* book_table split at its await points: the scan (lines 98-138), the      *)
(* insert (140-150) and the save of the table row (153-154).               *)
(***************************************************************************)
BookScan(p, r) ==
    /\ procs[p].pc = "idle"
    /\ LET pre == BookPrecheck(tables, r) IN
       procs' = [procs EXCEPT ![p] =
           IF pre # "pass" THEN [pc |-> "done", op |-> "book", result |-> pre]
           ELSE IF HasConflict(bookings, r)
           THEN [pc |-> "done", op |-> "book", result |-> "Conflict"]
           ELSE [pc |-> "insert", req |-> r, seen |-> Len(bookings),
                 table |-> tables[r.table]]]
    /\ UNCHANGED <<bookVars, authVars, resp, botVars>>

BookInsert(p) ==
    /\ procs[p].pc = "insert"
    /\ Len(bookings) < MaxBookings
    /\ bookings' = Append(bookings, NewBooking(procs[p].req, procs[p].seen))
    /\ procs' = [procs EXCEPT ![p] =
           [pc |-> "save", tid |-> procs[p].req.table, table |-> procs[p].table]]
    /\ UNCHANGED <<tables, authVars, resp, botVars>>

BookSaveTable(p) ==
    /\ procs[p].pc = "save"
    /\ tables' = [tables EXCEPT ![procs[p].tid] =
                      [procs[p].table EXCEPT !.status = "booked"]]
    /\ procs' = [procs EXCEPT ![p] = [pc |-> "done", op |-> "book", result |-> "Created"]]
    /\ UNCHANGED <<bookings, authVars, resp, botVars>>

(***************************************************************************)
(* Security utilities and model methods                                    *)
(***************************************************************************)
\* hash_verification_code / hash_session_id: SHA-256, taken as injective.
HashCode(k) == <<"sha256", k>>

HashSession(tok) == <<"sha256", tok>>

\* contact_type = 'email' if '@' in contact else 'phone'
ContactType(c) == IF c \in Emails THEN "email" ELSE "phone"

RateWindow_Minutes == RATE_LIMIT_MINUTES

RateWindow == RATE_LIMIT_MINUTES * 60

CodeIsExpired(v, t) == t > v.expires

SessionIsExpired_Inclusive(s, t) == t >= s.expires

SessionIsExpired(s, t) == t > s.expires

(***************************************************************************)
(* AuthService.send_verification_code                                      *)
(***************************************************************************)
RecentCodes_Exclusive(cs, c, t) ==
    {i \in DOMAIN cs : cs[i].contact = c /\ cs[i].created > t - RateWindow}

RecentCodes(cs, c, t) ==
    {i \in DOMAIN cs : cs[i].contact = c /\ cs[i].created >= t - RateWindow}

\* seen: history field, the number of rows that existed when the rate-limit
\* lookup of the creating request ran.
NewCode(c, k, t, seen) ==
    [contact |-> c, ctype |-> ContactType(c), hash |-> HashCode(k),
     created |-> t, expires |-> t + VERIFICATION_CODE_EXPIRY,
     attempts |-> 0, used |-> FALSE, seen |-> seen]

\* delivered: whether NotificationService.send_verification_code returned
\* or raised (the row is stored before the notification is attempted).
SendCode(c, k, delivered) ==
    /\ IF RecentCodes(codes, c, now) # {}
       THEN /\ resp' = Resp("send", NULL, "RateLimit")
            /\ UNCHANGED codes
       ELSE /\ Len(codes) < MaxCodes
            /\ codes' = Append(codes, NewCode(c, k, now, Len(codes)))
            /\ resp' = Resp("send", NULL, IF delivered THEN "ok" ELSE "SendFailed")
    /\ UNCHANGED <<now, users, sessions, nextSid, bookVars, procs, botVars>>

\* send_verification_code split at its await points: the rate-limit lookup
\* (lines 53-63) and the insert with the notification (65-84).
SendLookup(p, c) ==
    /\ procs[p].pc = "idle"
    /\ procs' = [procs EXCEPT ![p] =
           IF RecentCodes(codes, c, now) # {}
           THEN [pc |-> "done", op |-> "send", result |-> "RateLimit"]
           ELSE [pc |-> "create", contact |-> c, seen |-> Len(codes)]]
    /\ UNCHANGED <<authVars, bookVars, resp, botVars>>

SendCreate(p, k, delivered) ==
    /\ procs[p].pc = "create"
    /\ Len(codes) < MaxCodes
    /\ codes' = Append(codes, NewCode(procs[p].contact, k, now, procs[p].seen))
    /\ procs' = [procs EXCEPT ![p] =
           [pc |-> "done", op |-> "send",
            result |-> IF delivered THEN "ok" ELSE "SendFailed"]]
    /\ UNCHANGED <<now, users, sessions, nextSid, bookVars, resp, botVars>>

\* Time passes while requests are in flight.
Elapse(t) ==
    /\ t > now
    /\ now' = t
    /\ UNCHANGED <<codes, users, sessions, nextSid, bookVars, procs, resp, botVars>>

(***************************************************************************)
(* AuthService.verify_code_and_login                                       *)
(***************************************************************************)
Matching(cs, c, h) == {i \in DOMAIN cs : cs[i].contact = c /\ cs[i].hash = h}

\* order_by('-created_at').first(): a row of S with the greatest created_at.
Newest(cs, S) == {i \in S : \A j \in S : cs[j].created <= cs[i].created}

Newer(cs, j, i) ==
    \/ cs[j].created > cs[i].created
    \/ cs[j].created = cs[i].created /\ j > i

\* Mutation: the update has no limit(5).
FailedTargets_All(cs, c) ==
    {i \in DOMAIN cs : cs[i].contact = c /\ ~cs[i].used}

\* filter(contact, is_used=False).order_by('-created_at').limit(5)
FailedTargets(cs, c) ==
    LET U == {i \in DOMAIN cs : cs[i].contact = c /\ ~cs[i].used}
    IN {i \in U : Cardinality({j \in U : Newer(cs, j, i)}) < FAILED_LIMIT}

IncrementFailed(cs, c) ==
    [i \in DOMAIN cs |->
        IF i \in FailedTargets(cs, c) THEN [cs[i] EXCEPT !.attempts = @ + 1]
        ELSE cs[i]]

VerifyCheck_AttemptsFirst(v, t) ==
    IF v.used THEN "CodeAlreadyUsed"
    ELSE IF v.attempts >= MAX_ATTEMPTS THEN "TooManyAttempts"
    ELSE IF CodeIsExpired(v, t) THEN "VerificationCodeExpired"
    ELSE "pass"

VerifyCheck(v, t) ==
    IF v.used THEN "CodeAlreadyUsed"
    ELSE IF CodeIsExpired(v, t) THEN "VerificationCodeExpired"
    ELSE IF v.attempts >= MAX_ATTEMPTS THEN "TooManyAttempts"
    ELSE "pass"

FindUser(us, c, ctype) ==
    {u \in DOMAIN us : IF ctype = "email" THEN us[u].email = c ELSE us[u].phone = c}

NewUser(c, ctype) ==
    [email |-> IF ctype = "email" THEN c ELSE NULL,
     phone |-> IF ctype = "email" THEN NULL ELSE c,
     active |-> TRUE, verified |-> TRUE]

\* _get_or_create_user: the rows after the call
UsersAfter_AlwaysCreate(us, c, ctype) == Append(us, NewUser(c, ctype))

UsersAfter(us, c, ctype) ==
    IF FindUser(us, c, ctype) # {} THEN us ELSE Append(us, NewUser(c, ctype))

NewSession(sid, u, t) ==
    [id |-> sid, user |-> u, hash |-> HashSession(sid),
     expires |-> t + SESSION_MAX_AGE, last |-> t]

VerifyCode(c, k) ==
    LET found == Matching(codes, c, HashCode(k)) IN
    /\ IF found = {}
       THEN /\ \A i \in FailedTargets(codes, c) : codes[i].attempts < AttemptsCap
            /\ codes' = IncrementFailed(codes, c)
            /\ resp' = Resp("verify", NULL, "InvalidVerificationCode")
            /\ UNCHANGED <<users, sessions, nextSid>>
       ELSE \E i \in Newest(codes, found) :
            LET pre == VerifyCheck(codes[i], now) IN
            IF pre # "pass"
            THEN /\ resp' = Resp("verify", NULL, pre)
                 /\ UNCHANGED <<codes, users, sessions, nextSid>>
            ELSE LET us == UsersAfter(users, c, codes[i].ctype)
                     u  == CHOOSE x \in FindUser(us, c, codes[i].ctype) : TRUE
                 IN /\ users' = us
                    /\ codes' = [codes EXCEPT ![i].used = TRUE]
                    /\ sessions' = sessions \cup {NewSession(nextSid + 1, u, now)}
                    /\ nextSid' = nextSid + 1
                    /\ resp' = Resp("verify", NULL, "ok")
    /\ UNCHANGED <<now, bookVars, procs, botVars>>

(***************************************************************************)
(* Sessions: get_current_user, logout, delete_session, the sweeps          *)
(***************************************************************************)
SessionsOf(ss, tok) == {s \in ss : s.hash = HashSession(tok)}

\* AuthService.get_session_by_token + get_current_user: the rows after the
\* call, and its outcome.
ResolveRows(ss, tok, t) ==
    IF SessionsOf(ss, tok) = {} THEN ss
    ELSE LET s == CHOOSE x \in SessionsOf(ss, tok) : TRUE IN
         IF SessionIsExpired(s, t) THEN ss \ {s}
         ELSE (ss \ {s}) \cup {[s EXCEPT !.last = t]}

ResolveResult(ss, us, tok, t) ==
    IF SessionsOf(ss, tok) = {} THEN "InvalidSession"
    ELSE LET s == CHOOSE x \in SessionsOf(ss, tok) : TRUE IN
         IF SessionIsExpired(s, t) THEN "SessionExpired"
         ELSE IF ~us[s.user].active THEN "UserNotActive"
         ELSE "ok"

ResolveUser(ss, tok) == (CHOOSE x \in SessionsOf(ss, tok) : TRUE).user

\* GET /auth/me
GetMe(tok) ==
    LET r == ResolveResult(sessions, users, tok, now) IN
    /\ sessions' = ResolveRows(sessions, tok, now)
    /\ resp' = Resp("me", tok, r)
    /\ UNCHANGED <<now, codes, users, nextSid, bookVars, procs, botVars>>

Logout_AllOfUser(tok) ==
    /\ sessions' = {s \in sessions :
                        \A m \in SessionsOf(sessions, tok) : s.user # m.user}
    /\ resp' = Resp("logout", tok, "ok")
    /\ UNCHANGED <<now, codes, users, nextSid, bookVars, procs, botVars>>

\* POST /auth/logout
Logout(tok) ==
    /\ sessions' = sessions \ SessionsOf(sessions, tok)
    /\ resp' = Resp("logout", tok, "ok")
    /\ UNCHANGED <<now, codes, users, nextSid, bookVars, procs, botVars>>

OwnedSession_AnyUser(ss, sid, u) == {s \in ss : s.id = sid}

OwnedSession(ss, sid, u) == {s \in ss : s.id = sid /\ s.user = u}

\* DELETE /auth/sessions/{sid}
DeleteSession(tok, sid) ==
    LET r  == ResolveResult(sessions, users, tok, now)
        ss == ResolveRows(sessions, tok, now)
    IN
    /\ IF r # "ok"
       THEN /\ sessions' = ss
            /\ resp' = Resp("delete_session", <<tok, sid>>, r)
       ELSE LET mine == OwnedSession(ss, sid, ResolveUser(sessions, tok)) IN
            IF mine = {}
            THEN /\ sessions' = ss
                 /\ resp' = Resp("delete_session", <<tok, sid>>, "NotFound")
            ELSE /\ sessions' = ss \ mine
                 /\ resp' = Resp("delete_session", <<tok, sid>>, "ok")
    /\ UNCHANGED <<now, codes, users, nextSid, bookVars, procs, botVars>>

CleanupExpiredSessions ==
    LET gone == {s \in sessions : s.expires < now} IN
    /\ sessions' = sessions \ gone
    /\ resp' = Resp("cleanup_sessions", NULL, "ok")
    /\ UNCHANGED <<now, codes, users, nextSid, bookVars, procs, botVars>>

CleanupExpiredCodes ==
    LET Keep(v) == ~(v.expires < now)
        kept == SelectSeq(codes, Keep)
    IN
    /\ codes' = kept
    /\ resp' = Resp("cleanup_codes", NULL, "ok")
    /\ UNCHANGED <<now, users, sessions, nextSid, bookVars, procs, botVars>>

\* Time passes between two requests.
Advance(t) ==
    /\ t > now
    /\ now' = t
    /\ resp' = Resp("tick", NULL, "ok")
    /\ UNCHANGED <<codes, users, sessions, nextSid, bookVars, procs, botVars>>

\* The is_active flag of a User row is cleared by an administrator, outside
\* this API (no handler writes it).
DeactivateUser(u) ==
    /\ users[u].active
    /\ users' = [users EXCEPT ![u].active = FALSE]
    /\ resp' = Resp("deactivate", NULL, "ok")
    /\ UNCHANGED <<now, codes, sessions, nextSid, bookVars, procs, botVars>>

(***************************************************************************)
(* Businesses, the Telegram bot manager, dishes and table administration   *)
(***************************************************************************)
MaxPending == 2         \* reload messages waiting for the worker
MaxFiles == 4           \* names of image files ever handed out
MaxRows == 3            \* Table rows one business ever has
MaxSent == 2            \* messages the AI callback delivers in one behaviour

BizIds     == {1, 2}                    \* ids Business.create can hand out
AnyBizId   == BizIds \cup {3}           \* 3: an id of no business
DishIds    == {1, 2}
AnyDishId  == DishIds \cup {3}
BotTokens  == {"tokA", "tokB"}
Names      == {"n0", "n1"}
Capacities == {1, 2}
UNSET      == "unset"                   \* an Optional field left out of a body
NoBiz      == 0                         \* None: no entry under that key

AbsentBiz ==
    [state |-> "absent", owner |-> NULL, token |-> NULL, active |-> FALSE,
     name |-> NULL, description |-> NULL]

GoneBiz == [AbsentBiz EXCEPT !.state = "deleted"]

NoFile     == 0                         \* image_path of no row

GoneDish ==
    [state |-> "deleted", business |-> NoBiz, title |-> NULL, image |-> NoFile]

BizRow(bz, b) == IF b \in DOMAIN bz THEN bz[b] ELSE AbsentBiz

DishRow(ds, d) == IF d \in DOMAIN ds THEN ds[d] ELSE GoneDish

NoMapping == [t \in BotTokens |-> NoBiz]

NoToken == NULL

\* No business_bot:{id} key is set.
NoKeys == [b \in BizIds |-> NoToken]

TokensOf(m, b) == {t \in BotTokens : m[t] = b}

\* The business_bot:{id} keys register_bot wrote along with the
\* bot:{token} keys m.
KeysFor(m) ==
    [b \in BizIds |->
        IF TokensOf(m, b) = {} THEN NoToken ELSE CHOOSE t \in TokensOf(m, b) : TRUE]

\* Business.filter(telegram_bot_token__not_isnull=True, is_active=True) and
\* the grouping of load_active_bots: per token the most recently created
\* active business (ids are handed out in creation order).
\* Mutation: the query has no is_active filter.
ActiveWith_AnyLive(bz, t) ==
    {b \in DOMAIN bz : bz[b].state = "live" /\ bz[b].token = t}

ActiveWith(bz, t) ==
    {b \in DOMAIN bz : bz[b].state = "live" /\ bz[b].active /\ bz[b].token = t}

Latest(S) == CHOOSE b \in S : \A c \in S : c <= b

ActiveBots(bz) ==
    [t \in BotTokens |->
        IF ActiveWith(bz, t) = {} THEN NoBiz ELSE Latest(ActiveWith(bz, t))]

\* What the Telegram call of register_bot_webhook / unregister_bot_webhook
\* can come to: "ok" (HTTP 200, and ok=true for setWebhook), "status"
\* (another HTTP status), "refused" (200 with ok=false, setWebhook only),
\* "timeout" (httpx.TimeoutException) and "error" (any other exception).
TelegramAnswers == {"ok", "status", "refused", "timeout", "error"}

\* Telegram's webhooks after the call: a request that timed out or broke
\* off may or may not have been carried out.
HooksAfter(hs, tok, tg, wanted) ==
    IF tg = "ok" THEN {wanted}
    ELSE IF tg \in {"timeout", "error"} THEN {hs, wanted}
    ELSE {hs}

\* _notify_workers_reload: publish, any exception logged and dropped.
NotifyWorkersReload(pub) ==
    IF pub THEN pending < MaxPending /\ pending' = pending + 1
    ELSE UNCHANGED pending

\* status_code == 200 and result.get("ok")
SetAccepted(tg) == tg = "ok"

\* status_code == 200; the body of the answer is not read.
DeleteAnswered(tg) == tg \in {"ok", "refused"}

\* The return value: True after the cache write and the notification,
\* False on every other path, the except clauses included.
WebhookResult(answered, cache) ==
    IF answered /\ cache THEN "True" ELSE "False"

\* register_bot_webhook from the setWebhook call to its return. cache:
\* get_redis and setex returned; pub: publish returned.
RegisterEffect(tok, b, tg, cache, pub) ==
    /\ hooks' \in HooksAfter(hooks, tok, tg, hooks \cup {tok})
    /\ IF SetAccepted(tg) /\ cache
       THEN /\ mgmtCache' = [mgmtCache EXCEPT ![tok] = b]
            /\ NotifyWorkersReload(pub)
       ELSE UNCHANGED <<mgmtCache, pending>>

\* unregister_bot_webhook from the deleteWebhook call to its return.
UnregisterEffect(tok, tg, cache, pub) ==
    /\ hooks' \in HooksAfter(hooks, tok, tg, hooks \ {tok})
    /\ IF DeleteAnswered(tg) /\ cache
       THEN /\ mgmtCache' = [mgmtCache EXCEPT ![tok] = NoBiz]
            /\ NotifyWorkersReload(pub)
       ELSE UNCHANGED <<mgmtCache, pending>>

\* BotManagerService.register_bot_webhook with Redis reachable:
\* setWebhook; on success the bot_token:{token} key is written and a
\* reload is published.
RegisterBotWebhook(tok, b, ok) ==
    RegisterEffect(tok, b, IF ok THEN "ok" ELSE "status", TRUE, TRUE)

\* BotManagerService.unregister_bot_webhook with Redis reachable:
\* deleteWebhook; on success the key is deleted and a reload is published.
UnregisterBotWebhook(tok, ok) ==
    UnregisterEffect(tok, IF ok THEN "ok" ELSE "status", TRUE, TRUE)

\* One call of register_bot_webhook and its return value.
RegisterCall(tok, b, tg, cache, pub) ==
    /\ RegisterEffect(tok, b, tg, cache, pub)
    /\ resp' = Resp("register_bot",
                    [tok |-> tok, tg |-> tg, cache |-> cache, pub |-> pub],
                    WebhookResult(SetAccepted(tg), cache))
    /\ UNCHANGED <<businesses, dishes, uploads>>
    /\ UNCHANGED <<bookVars, authVars, procs, workerVars>>

\* One call of unregister_bot_webhook and its return value.
UnregisterCall(tok, tg, cache, pub) ==
    /\ UnregisterEffect(tok, tg, cache, pub)
    /\ resp' = Resp("unregister_bot",
                    [tok |-> tok, tg |-> tg, cache |-> cache, pub |-> pub],
                    WebhookResult(DeleteAnswered(tg), cache))
    /\ UNCHANGED <<businesses, dishes, uploads>>
    /\ UNCHANGED <<bookVars, authVars, procs, workerVars>>

FreeBizIds(bz) == {b \in DOMAIN bz : bz[b].state = "absent"}

Oldest(S) == CHOOSE b \in S : \A c \in S : b <= c

NewBusiness(u, tok, nm) ==
    [state |-> "live", owner |-> u, token |-> tok, active |-> TRUE, name |-> nm,
     description |-> "d0"]

\* Mutation: the row keeps is_active=True when the registration failed.
CreatedBusiness_StaysActive(u, tok, nm, ok) == NewBusiness(u, tok, nm)

\* The row create_business leaves: created active, saved again with
\* is_active=False when register_bot_webhook returned False.
CreatedBusiness(u, tok, nm, ok) ==
    [NewBusiness(u, tok, nm) EXCEPT !.active = ok]

\* Mutation: the row is created before the token is verified.
CreateBusiness_PersistFirst(u, tok, nm, verified, ok) ==
    /\ FreeBizIds(businesses) # {}
    /\ businesses' = [businesses EXCEPT ![Oldest(FreeBizIds(businesses))] =
           CreatedBusiness(u, tok, nm, verified /\ ok)]
    /\ IF verified
       THEN /\ RegisterBotWebhook(tok, Oldest(FreeBizIds(businesses)), ok)
            /\ resp' = Resp("create_business", NULL, "Created")
       ELSE /\ resp' = Resp("create_business", NULL, "InvalidTelegramToken")
            /\ UNCHANGED <<hooks, mgmtCache, pending>>
    /\ UNCHANGED <<dishes, uploads, bookVars, authVars, procs, workerVars>>

\* POST /businesses. verified: getMe answered ok; ok: setWebhook answered ok.
CreateBusiness(u, tok, nm, verified, ok) ==
    /\ IF ~verified
       THEN /\ resp' = Resp("create_business", NULL, "InvalidTelegramToken")
            /\ UNCHANGED bizVars
       ELSE /\ FreeBizIds(businesses) # {}
            /\ LET b == Oldest(FreeBizIds(businesses)) IN
               /\ businesses' = [businesses EXCEPT ![b] =
                      CreatedBusiness(u, tok, nm, ok)]
               /\ RegisterBotWebhook(tok, b, ok)
            /\ resp' = Resp("create_business", NULL, "Created")
            /\ UNCHANGED <<dishes, uploads>>
    /\ UNCHANGED <<bookVars, authVars, procs, workerVars>>

\* Bodies of PUT /businesses/{id}. BusinessUpdateSchema has name,
\* description and is_active and forbids every other key.
UpdateBodies ==
    [name : {UNSET} \cup Names, description : {UNSET, "d1"},
     active : {UNSET, "true", "false"}, token : {UNSET} \cup BotTokens]

BusinessCheck(bz, b, u) ==
    IF BizRow(bz, b).state # "live" THEN "NotFound"
    ELSE IF bz[b].owner # u THEN "AccessDenied"
    ELSE "pass"

Activates(row, d) == d.active = "true" /\ ~row.active

Deactivates(row, d) == d.active = "false" /\ row.active

\* update_fields applied to the row that was read.
Described(row, d) ==
    [row EXCEPT !.name = IF d.name # UNSET THEN d.name ELSE @,
                !.description =
                    IF d.description # UNSET THEN d.description ELSE @]

UpdatedBusiness(row, d, ok) ==
    LET named == Described(row, d) IN
    IF Activates(row, d) THEN [named EXCEPT !.active = ok]
    ELSE IF Deactivates(row, d) THEN [named EXCEPT !.active = FALSE]
    ELSE named

\* PUT /businesses/{id}. ok: the Telegram call answered ok.
UpdateBusiness(b, u, d, ok) ==
    /\ IF d.token # UNSET
       THEN /\ resp' = Resp("update_business", NULL, "ValidationError")
            /\ UNCHANGED bizVars
       ELSE LET pre == BusinessCheck(businesses, b, u) IN
            IF pre # "pass"
            THEN /\ resp' = Resp("update_business", NULL, pre)
                 /\ UNCHANGED bizVars
            ELSE /\ IF Activates(businesses[b], d)
                    THEN RegisterBotWebhook(businesses[b].token, b, ok)
                    ELSE IF Deactivates(businesses[b], d)
                    THEN UnregisterBotWebhook(businesses[b].token, ok)
                    ELSE UNCHANGED <<hooks, mgmtCache, pending>>
                 /\ businesses' = [businesses EXCEPT ![b] =
                        UpdatedBusiness(businesses[b], d, ok)]
                 /\ resp' = Resp("update_business", NULL, "ok")
                 /\ UNCHANGED <<dishes, uploads>>
    /\ UNCHANGED <<bookVars, authVars, procs, workerVars>>

\* GET /businesses/{id}
GetBusiness(b, u) ==
    /\ LET pre == BusinessCheck(businesses, b, u) IN
       resp' = Resp("get_business", NULL, IF pre = "pass" THEN "ok" ELSE pre)
    /\ UNCHANGED <<bookVars, authVars, procs, botVars>>

\* ON DELETE CASCADE of Dish.business and Table.business.
DishesWithout(ds, b) ==
    [d \in DOMAIN ds |-> IF ds[d].business = b THEN GoneDish ELSE ds[d]]

TablesWithout(tbls, b) ==
    [t \in {x \in DOMAIN tbls : TableBiz(x) # b} |-> tbls[t]]

BookingsWithout(bks, b) ==
    SelectSeq(bks, LAMBDA k : TableBiz(k.table) # b)

\* DELETE /businesses/{id}
DeleteBusiness(b, u, ok) ==
    /\ LET pre == BusinessCheck(businesses, b, u) IN
       IF pre # "pass"
       THEN /\ resp' = Resp("delete_business", NULL, pre)
            /\ UNCHANGED <<bizVars, bookVars>>
       ELSE /\ UnregisterBotWebhook(businesses[b].token, ok)
            /\ businesses' = [businesses EXCEPT ![b] = GoneBiz]
            /\ dishes' = DishesWithout(dishes, b)
            /\ UNCHANGED uploads
            /\ tables' = TablesWithout(tables, b)
            /\ bookings' = BookingsWithout(bookings, b)
            /\ resp' = Resp("delete_business", NULL, "ok")
    /\ UNCHANGED <<authVars, procs, workerVars>>

\* GET /dishes/{id}: no Depends(get_current_user), no owner test.
GetDish(d, u) ==
    /\ resp' = Resp("get_dish", NULL,
                    IF DishRow(dishes, d).state # "live" THEN "NotFound" ELSE "ok")
    /\ UNCHANGED <<bookVars, authVars, procs, botVars>>

DishCheck(ds, bz, d, u) ==
    IF DishRow(ds, d).state # "live" THEN "NotFound"
    ELSE IF BizRow(bz, ds[d].business).owner # u THEN "AccessDenied"
    ELSE "pass"

\* The image of a request body: UNSET when an update carries none, "ok",
\* "invalid" (_decode_base64_image raises InvalidImageError), "unverifiable"
\* (Image.open or verify raises, nothing is written) and "unwritable"
\* (img.save raises; the file it opened may be left behind).
Images == {"ok", "invalid", "unverifiable", "unwritable"}

ImageError(image) == IF image = "invalid" THEN "InvalidImage" ELSE "ImageSave"

\* uuid4: a file name no file and no row has.
FreshFile(files, ds) ==
    CHOOSE n \in 1 .. MaxFiles + 1 :
        /\ n \notin files \cup {ds[d].image : d \in DOMAIN ds}
        /\ \A m \in 1 .. n - 1 : m \in files \cup {ds[d].image : d \in DOMAIN ds}

\* The upload directory after _decode_base64_image and _save_image_to_disk.
SavedFiles(files, ds, image) ==
    IF image = "ok" THEN {files \cup {FreshFile(files, ds)}}
    ELSE IF image = "unwritable" THEN {files, files \cup {FreshFile(files, ds)}}
    ELSE {files}

\* The ids of rows that do not exist stand for the ids of new rows.
FreeDishIds(ds) == {d \in DOMAIN ds : ds[d].state # "live"}

\* POST /dishes
CreateDish(b, u, title, image) ==
    /\ LET pre == BusinessCheck(businesses, b, u) IN
       IF pre # "pass"
       THEN /\ resp' = Resp("create_dish", NULL, pre)
            /\ UNCHANGED <<dishes, uploads>>
       ELSE /\ FreshFile(uploads, dishes) <= MaxFiles
            /\ uploads' \in SavedFiles(uploads, dishes, image)
            /\ IF image # "ok"
               THEN /\ resp' = Resp("create_dish", NULL, ImageError(image))
                    /\ UNCHANGED dishes
               ELSE /\ FreeDishIds(dishes) # {}
                    /\ LET d == CHOOSE x \in FreeDishIds(dishes) :
                                    \A y \in FreeDishIds(dishes) : x <= y
                       IN dishes' = [dishes EXCEPT ![d] =
                              [state |-> "live", business |-> b, title |-> title,
                               image |-> FreshFile(uploads, dishes)]]
                    /\ resp' = Resp("create_dish", NULL, "Created")
    /\ UNCHANGED <<businesses, hooks, mgmtCache, pending>>
    /\ UNCHANGED <<bookVars, authVars, procs, workerVars>>

\* PUT /dishes/{id}: the current image file is unlinked before the new
\* image is decoded and saved, the row is saved last.
UpdateDish(d, u, title, image) ==
    /\ LET pre == DishCheck(dishes, businesses, d, u) IN
       IF pre # "pass"
       THEN /\ resp' = Resp("update_dish", NULL, pre)
            /\ UNCHANGED <<dishes, uploads>>
       ELSE IF image = UNSET
       THEN /\ dishes' = [dishes EXCEPT ![d].title =
                             IF title = UNSET THEN dishes[d].title ELSE title]
            /\ resp' = Resp("update_dish", NULL, "ok")
            /\ UNCHANGED uploads
       ELSE LET unlinked == uploads \ {dishes[d].image} IN
            /\ FreshFile(unlinked, dishes) <= MaxFiles
            /\ uploads' \in SavedFiles(unlinked, dishes, image)
            /\ IF image # "ok"
               THEN /\ resp' = Resp("update_dish", NULL, ImageError(image))
                    /\ UNCHANGED dishes
               ELSE /\ dishes' = [dishes EXCEPT
                          ![d].title = IF title = UNSET THEN dishes[d].title
                                       ELSE title,
                          ![d].image = FreshFile(unlinked, dishes)]
                    /\ resp' = Resp("update_dish", NULL, "ok")
    /\ UNCHANGED <<businesses, hooks, mgmtCache, pending>>
    /\ UNCHANGED <<bookVars, authVars, procs, workerVars>>

\* DELETE /dishes/{id}: unlinks the image file, then deletes the row.
DeleteDish(d, u) ==
    /\ LET pre == DishCheck(dishes, businesses, d, u) IN
       IF pre # "pass"
       THEN /\ resp' = Resp("delete_dish", NULL, pre)
            /\ UNCHANGED <<dishes, uploads>>
       ELSE /\ uploads' = uploads \ {dishes[d].image}
            /\ dishes' = [dishes EXCEPT ![d] = GoneDish]
            /\ resp' = Resp("delete_dish", NULL, "ok")
    /\ UNCHANGED <<businesses, hooks, mgmtCache, pending>>
    /\ UNCHANGED <<bookVars, authVars, procs, workerVars>>

\* TableService.get_table
TableCheck(tbls, bz, t, u) ==
    IF t \notin DOMAIN tbls THEN "NotFound"
    ELSE IF BizRow(bz, TableBiz(t)).owner # u THEN "AccessDenied"
    ELSE "pass"

\* GET /businesses/{b}/tables/{id}
GetTable(t, u) ==
    /\ LET pre == TableCheck(tables, businesses, t, u) IN
       resp' = Resp("get_table", NULL, IF pre = "pass" THEN "ok" ELSE pre)
    /\ UNCHANGED <<bookVars, authVars, procs, botVars>>

\* GET /businesses/{b}/tables: the endpoint calls
\* TableService.get_business_tables(business_id, current_user), a static
\* method of one parameter; the call raises TypeError.
GetTables(b, u) ==
    /\ resp' = Resp("get_tables", NULL, "ServerError")
    /\ UNCHANGED <<bookVars, authVars, procs, botVars>>

\* PUT /businesses/{b}/tables/{id}
UpdateTable(t, u, cap) ==
    /\ LET pre == TableCheck(tables, businesses, t, u) IN
       IF pre # "pass"
       THEN /\ resp' = Resp("update_table", NULL, pre)
            /\ UNCHANGED tables
       ELSE /\ tables' = [tables EXCEPT ![t].capacity = cap]
            /\ resp' = Resp("update_table", NULL, "ok")
    /\ UNCHANGED <<bookings, authVars, procs, botVars>>

\* DELETE /businesses/{b}/tables/{id}: soft delete.
DeleteTable(t, u) ==
    /\ LET pre == TableCheck(tables, businesses, t, u) IN
       IF pre # "pass"
       THEN /\ resp' = Resp("delete_table", NULL, pre)
            /\ UNCHANGED tables
       ELSE /\ tables' = [tables EXCEPT ![t].active = FALSE]
            /\ resp' = Resp("delete_table", NULL, "ok")
    /\ UNCHANGED <<bookings, authVars, procs, botVars>>

(***************************************************************************)
(* DishService.search_dishes                                               *)
(* Texts are tuples of characters over a small alphabet; "V" is the one    *)
(* upper-case letter and " " the one whitespace character.                 *)
(***************************************************************************)
\* str.lower()
Lower(c) == IF c = "V" THEN "v" ELSE c

LowerText(s) == [i \in DOMAIN s |-> Lower(s[i])]

\* str.strip()
RECURSIVE StripLeft(_)
StripLeft(s) == IF s # <<>> /\ Head(s) = " " THEN StripLeft(Tail(s)) ELSE s

RECURSIVE StripRight(_)
StripRight(s) ==
    IF s # <<>> /\ s[Len(s)] = " " THEN StripRight(SubSeq(s, 1, Len(s) - 1))
    ELSE s

Strip(s) == StripRight(StripLeft(s))

\* k in s, for strings
Contains(s, k) ==
    \E i \in 0 .. Len(s) - Len(k) : SubSeq(s, i + 1, i + Len(k)) = k

\* field__icontains=k: case-insensitive LIKE; a NULL column matches nothing.
IContains(field, k) == field # <<>> /\ Contains(LowerText(field), LowerText(k))

\* keyword.lower().strip() of the keywords that are not blank
Folded(keywords) ==
    {Strip(LowerText(keywords[i])) : i \in DOMAIN keywords} \ {<<>>}

LowerAll(list) == {LowerText(list[i]) : i \in DOMAIN list}

\* query.filter(keyword_queries): the OR over the keywords of the four
\* text columns; Q() adds no condition.
Candidates(ds, keywords) ==
    IF keywords = <<>> \/ Folded(keywords) = {} THEN {d \in DOMAIN ds : TRUE}
    ELSE {d \in DOMAIN ds :
            \E k \in Folded(keywords) :
                \/ IContains(ds[d].title, k)
                \/ IContains(ds[d].description, k)
                \/ IContains(ds[d].category, k)
                \/ IContains(ds[d].cuisine, k)}

\* The in-memory test of one dish: list membership for the three JSON
\* lists, substring for the text fields (None and "" are both false).
Found(row, keywords) ==
    \E k \in Folded(keywords) :
        \/ k \in LowerAll(row.tags)
        \/ k \in LowerAll(row.ingredients)
        \/ k \in LowerAll(row.allergens)
        \/ Contains(LowerText(row.title), k)
        \/ Contains(LowerText(row.description), k)
        \/ (row.category # <<>> /\ Contains(LowerText(row.category), k))
        \/ (row.cuisine # <<>> /\ Contains(LowerText(row.cuisine), k))

\* The filters after the keyword passes; an empty list, NoBiz and UNSET
\* are a filter that was not given.
PassesFilters(row, q) ==
    /\ q.business # NoBiz => row.business = q.business
    /\ q.categories # <<>> =>
          row.category # <<>> /\ LowerText(row.category) \in LowerAll(q.categories)
    /\ q.cuisines # <<>> =>
          row.cuisine # <<>> /\ LowerText(row.cuisine) \in LowerAll(q.cuisines)
    /\ q.available # UNSET => row.available = (q.available = "true")
    /\ q.priced => row.price <= q.price_max

SearchResult(ds, q) ==
    {d \in Candidates(ds, q.keywords) :
        /\ q.keywords # <<>> => Found(ds[d], q.keywords)
        /\ PassesFilters(ds[d], q)}

\* POST /dishes/search: the ids of the dishes returned.
SearchDishes(q) ==
    /\ resp' = Resp("search", q, SearchResult(dishes, q))
    /\ UNCHANGED <<bookVars, authVars, procs, botVars>>

(***************************************************************************)
(* TableService.bulk_update_tables                                         *)
(***************************************************************************)
TablesOf(tbls, b) == {t \in DOMAIN tbls : TableBiz(t) = b}

\* Table.filter(business_id, is_active=True)
ActiveTables(tbls, b) == {t \in TablesOf(tbls, b) : tbls[t].active}

\* .order_by('table_number')
RECURSIVE ByNumber(_, _)
ByNumber(tbls, S) ==
    IF S = {} THEN <<>>
    ELSE LET t == CHOOSE x \in S : \A y \in S : tbls[x].number <= tbls[y].number
         IN <<t>> \o ByNumber(tbls, S \ {t})

Range(seq) == {seq[i] : i \in DOMAIN seq}

\* The loop that saves default_capacity on the tables whose capacity differs.
WithCapacity(tbls, S, cap) ==
    [t \in DOMAIN tbls |->
        IF t \in S THEN [tbls[t] EXCEPT !.capacity = cap] ELSE tbls[t]]

Differing(tbls, S, cap) == Cardinality({t \in S : tbls[t].capacity # cap})

\* max([t.table_number for t in existing_tables]) if existing_tables else 0
MaxTableNumber(tbls, S) ==
    IF S = {} THEN 0
    ELSE tbls[CHOOSE x \in S : \A y \in S : tbls[x].number >= tbls[y].number].number

\* unique_together (business, table_number), over active and inactive rows.
NumberTaken(tbls, b, n) == \E t \in TablesOf(tbls, b) : tbls[t].number = n

\* The id of the next Table row of business b.
FreshTableId(tbls, b) == b + Cardinality(BizIds) * Cardinality(TablesOf(tbls, b))

NewTable(n, cap) ==
    [capacity |-> cap, status |-> "available", active |-> TRUE, number |-> n]

\* The loop of Table.create: k rows numbered from n; a number that a row of
\* the business already has violates the unique constraint and ends the
\* request, the rows created before it stay.
RECURSIVE CreateTables(_, _, _, _, _, _)
CreateTables(tbls, b, n, k, cap, done) ==
    IF k = 0 THEN [tables |-> tbls, count |-> done, ok |-> TRUE]
    ELSE IF NumberTaken(tbls, b, n)
    THEN [tables |-> tbls, count |-> done, ok |-> FALSE]
    ELSE LET id == FreshTableId(tbls, b) IN
         CreateTables([t \in DOMAIN tbls \cup {id} |->
                          IF t = id THEN NewTable(n, cap) ELSE tbls[t]],
                      b, n + 1, k - 1, cap, done + 1)

\* date.today(), with now in seconds.
Today(t) == t \div 86400

\* TableBooking.filter(table_id, is_cancelled=False, booking_date__gte=today)
HasActiveBookings(bks, t, today) ==
    \E i \in DOMAIN bks :
        bks[i].table = t /\ ~bks[i].cancelled /\ bks[i].date >= today

\* The loop over existing_tables[tables_to_keep:]: a table with an active
\* booking ends the request with 400, the tables saved before it stay
\* soft-deleted.
RECURSIVE RemoveTables(_, _, _, _, _)
RemoveTables(tbls, bks, seq, today, done) ==
    IF seq = <<>> THEN [tables |-> tbls, count |-> done, ok |-> TRUE]
    ELSE IF HasActiveBookings(bks, Head(seq), today)
    THEN [tables |-> tbls, count |-> done, ok |-> FALSE]
    ELSE RemoveTables([tbls EXCEPT ![Head(seq)].active = FALSE], bks,
                      Tail(seq), today, done + 1)

BulkResult(created, updated, deleted, tbls, b) ==
    [created |-> created, updated |-> updated, deleted |-> deleted,
     total |-> Cardinality(ActiveTables(tbls, b))]

\* The answer of a request that raised carries no counts.
NoCounts == [created |-> 0, updated |-> 0, deleted |-> 0, total |-> 0]

\* POST /businesses/{b}/tables/bulk
BulkUpdateTables(b, u, target, cap) ==
    /\ LET pre      == BusinessCheck(businesses, b, u)
           act      == ActiveTables(tables, b)
           existing == ByNumber(tables, act)
           current  == Len(existing)
       IN
       IF pre # "pass"
       THEN /\ resp' = Resp("bulk_tables", NoCounts, pre)
            /\ UNCHANGED tables
       ELSE IF target > current
       THEN LET upd  == WithCapacity(tables, act, cap)
                made == CreateTables(upd, b, MaxTableNumber(tables, act) + 1,
                                     target - current, cap, 0)
            IN /\ Cardinality(TablesOf(made.tables, b)) <= MaxRows
               /\ tables' = made.tables
               /\ resp' = IF made.ok
                          THEN Resp("bulk_tables",
                                    BulkResult(made.count,
                                               Differing(tables, act, cap), 0,
                                               made.tables, b), "ok")
                          ELSE Resp("bulk_tables", NoCounts, "ServerError")
       ELSE IF target < current
       THEN LET kept == Range(SubSeq(existing, 1, target))
                upd  == WithCapacity(tables, kept, cap)
                gone == RemoveTables(upd, bookings,
                                     SubSeq(existing, target + 1, current),
                                     Today(now), 0)
            IN /\ tables' = gone.tables
               /\ resp' = IF gone.ok
                          THEN Resp("bulk_tables",
                                    BulkResult(0, Differing(tables, kept, cap),
                                               gone.count, gone.tables, b), "ok")
                          ELSE Resp("bulk_tables", NoCounts, "BadRequest")
       ELSE /\ tables' = WithCapacity(tables, act, cap)
            /\ resp' = Resp("bulk_tables",
                            BulkResult(0, Differing(tables, act, cap), 0,
                                       tables, b), "ok")
    /\ UNCHANGED <<bookings, authVars, procs, botVars>>

\* The worker's listener takes one message off bot_worker:reload and runs
\* reload_all_bots without interruption.
ReloadMessage ==
    /\ pending > 0
    /\ pending' = pending - 1
    /\ bots' = ActiveBots(businesses)
    /\ shut' = {}
    /\ botCache' = ActiveBots(businesses)
    /\ bizCache' = KeysFor(ActiveBots(businesses))
    /\ UNCHANGED <<businesses, dishes, uploads, hooks, mgmtCache, wk, outbox, chatVars>>
    /\ UNCHANGED <<bookVars, authVars, procs, resp>>


(***************************************************************************)
(* Bot Worker: BotRegistry and the webhook host, split at their awaits.    *)
(* wk.r is the reload listener, wk.h one webhook request.                  *)
(***************************************************************************)
RIdle ==
    [pc |-> "idle", snap |-> NoMapping, rest |-> <<>>, cur |-> NULL,
     unclosed |-> {}]

HIdle ==
    [pc |-> "idle", snap |-> NoMapping, rest |-> <<>>, cur |-> NULL,
     tok |-> NULL, lookups |-> 0, reloads |-> 0, cached |-> NoBiz,
     entry |-> NoBiz, seen |-> <<>>, unclosed |-> {}]

\* Tokens of a query result in the order load_active_bots meets them:
\* Business.Meta.ordering is -created_at.
RECURSIVE NewestFirst(_, _)
NewestFirst(snap, S) ==
    IF S = {} THEN <<>>
    ELSE LET t == CHOOSE x \in S : \A y \in S : snap[y] <= snap[x]
         IN <<t>> \o NewestFirst(snap, S \ {t})

Loaded(snap) == NewestFirst(snap, {t \in BotTokens : snap[t] # NoBiz})

\* register_bot returns at once for a token that is already in self.bots.
RECURSIVE SkipKnown(_, _)
SkipKnown(bts, seq) ==
    IF seq = <<>> THEN <<>>
    ELSE IF bts[Head(seq)] # NoBiz THEN SkipKnown(bts, Tail(seq))
    ELSE seq

\* get_bot up to its first await: the in-memory entry, or the wait for
\* redis.get.
Lookup(c, bts) ==
    IF bts[c.tok] # NoBiz
    THEN [c EXCEPT !.pc = "found", !.entry = bts[c.tok], !.lookups = @ + 1]
    ELSE [c EXCEPT !.pc = "get", !.lookups = @ + 1]

\* reload_all_bots up to its first await: close_all copies the entries of
\* self.bots and awaits the close of the first one; with no bot loaded the
\* clear is immediate and the first await is the scan of the cache.
StartReload(c, bts) ==
    IF bts = NoMapping THEN [c EXCEPT !.pc = "scan"]
    ELSE [c EXCEPT !.pc = "close", !.rest = Loaded(bts)]

\* What a coroutine does when its reload_all_bots returns: the listener
\* waits for the next message, the webhook handler retries get_bot.
AfterReload(k, c, bts) ==
    IF k = "r" THEN RIdle
    ELSE Lookup([c EXCEPT !.snap = NoMapping, !.rest = <<>>, !.cur = NULL,
                          !.unclosed = {}], bts)

\* The loop of load_active_bots from one await to the next: tokens already
\* loaded are skipped, the next one is stored in self.bots and the
\* coroutine waits for its setex.
RegisterNext(k, c, seq) ==
    LET todo == SkipKnown(bots, seq) IN
    IF todo = <<>>
    THEN /\ wk' = [wk EXCEPT ![k] = AfterReload(k, c, bots)]
         /\ UNCHANGED <<bots, shut>>
    ELSE /\ bots' = [bots EXCEPT ![Head(todo)] = c.snap[Head(todo)]]
         /\ shut' = shut \ {Head(todo)}
         /\ wk' = [wk EXCEPT ![k] =
                [c EXCEPT !.pc = "setex", !.cur = Head(todo), !.rest = Tail(todo)]]

Coroutines == {"r", "h"}

\* listen_for_reload_events: the next message starts reload_all_bots.
ListenerTake ==
    /\ pending > 0
    /\ wk.r.pc = "idle"
    /\ pending' = pending - 1
    /\ wk' = [wk EXCEPT !.r = StartReload(RIdle, bots)]
    /\ UNCHANGED <<businesses, dishes, uploads, hooks, mgmtCache, outbox, chatVars>>
    /\ UNCHANGED <<bots, shut, botCache, bizCache>>
    /\ UNCHANGED <<bookVars, authVars, procs, resp>>

\* The entries close_all copied are no longer the ones in self.bots once
\* another coroutine has cleared it.
Detached(c) ==
    IF c.pc = "close" THEN [c EXCEPT !.rest = [i \in DOMAIN c.rest |-> NULL]]
    ELSE c

Other(k) == IF k = "r" THEN "h" ELSE "r"

\* Mutation: reload_all_bots without self.bots.clear(): the closed bots
\* stay in the map.
ReloadClose_NoClear(k, ok) ==
    /\ wk[k].pc = "close"
    /\ LET c == wk[k]
           t == Head(c.rest)
       IN /\ shut' = IF ok /\ t # NULL THEN shut \cup {t} ELSE shut
          /\ wk' = [wk EXCEPT ![k] =
                 IF Len(c.rest) > 1 THEN [c EXCEPT !.rest = Tail(c.rest)]
                 ELSE [c EXCEPT !.pc = "scan", !.rest = <<>>]]
          /\ UNCHANGED bots
    /\ UNCHANGED <<bizVars, botCache, bizCache, outbox, chatVars, bookVars, authVars, procs, resp>>

\* close_all: one bot_data['bot'].session.close() returns (ok) or raises
\* and is logged; after the last one self.bots.clear() runs before the
\* next await.
ReloadClose(k, ok) ==
    /\ wk[k].pc = "close"
    /\ LET c == wk[k]
           t == Head(c.rest)
           failed == IF ok \/ t = NULL THEN c.unclosed ELSE c.unclosed \cup {t}
       IN IF Len(c.rest) > 1
          THEN /\ shut' = IF ok /\ t # NULL THEN shut \cup {t} ELSE shut
               /\ wk' = [wk EXCEPT ![k].rest = Tail(c.rest),
                                   ![k].unclosed = failed]
               /\ UNCHANGED bots
          ELSE /\ bots' = NoMapping
               /\ shut' = {}
               /\ wk' = [wk EXCEPT
                      ![k] = [c EXCEPT !.pc = "scan", !.rest = <<>>,
                                       !.unclosed = failed],
                      ![Other(k)] = Detached(wk[Other(k)])]
    /\ UNCHANGED <<bizVars, botCache, bizCache, outbox, chatVars, bookVars, authVars, procs, resp>>

\* reload_all_bots: _clear_redis_cache deletes bot:* and business_bot:*.
ReloadScan(k) ==
    /\ wk[k].pc = "scan"
    /\ botCache' = NoMapping
    /\ bizCache' = NoKeys
    /\ wk' = [wk EXCEPT ![k].pc = "query"]
    /\ UNCHANGED <<bizVars, bots, shut, outbox, chatVars, bookVars, authVars, procs, resp>>

\* load_active_bots: the query answers; the first new token is stored.
ReloadQuery(k) ==
    /\ wk[k].pc = "query"
    /\ LET snap == ActiveBots(businesses) IN
       RegisterNext(k, [wk[k] EXCEPT !.snap = snap], Loaded(snap))
    /\ UNCHANGED <<bizVars, botCache, bizCache, outbox, chatVars, bookVars, authVars, procs, resp>>

\* register_bot: the setex calls of the stored token answer.
ReloadSetex(k) ==
    /\ wk[k].pc = "setex"
    /\ botCache' = [botCache EXCEPT ![wk[k].cur] = wk[k].snap[wk[k].cur]]
    /\ bizCache' = [bizCache EXCEPT ![wk[k].snap[wk[k].cur]] = wk[k].cur]
    /\ RegisterNext(k, wk[k], wk[k].rest)
    /\ UNCHANGED <<bizVars, outbox, chatVars, bookVars, authVars, procs, resp>>

\* Mutation: 404 on the first miss, without reload or retry.
Miss_NoRetry(c, bts) ==
    /\ wk' = [wk EXCEPT !.h = HIdle]
    /\ resp' = Resp("webhook",
                    [tok |-> c.tok, business |-> NoBiz,
                     lookups |-> c.lookups, reloads |-> c.reloads],
                    "NotFound")

\* webhook_handler answers 404 after the retry, reloads after the first miss.
Miss(c, bts) ==
    IF c.lookups = 1
    THEN /\ wk' = [wk EXCEPT !.h = StartReload([c EXCEPT !.reloads = @ + 1], bts)]
         /\ UNCHANGED resp
    ELSE /\ wk' = [wk EXCEPT !.h = HIdle]
         /\ resp' = Resp("webhook",
                         [tok |-> c.tok, business |-> NoBiz,
                          lookups |-> c.lookups, reloads |-> c.reloads],
                         "NotFound")

\* POST /webhook/{bot_token} arrives.
WebhookStart(tok) ==
    /\ wk.h.pc = "idle"
    /\ wk' = [wk EXCEPT !.h =
           Lookup([HIdle EXCEPT !.tok = tok, !.seen = businesses], bots)]
    /\ UNCHANGED <<bizVars, bots, shut, botCache, bizCache, outbox, chatVars>>
    /\ UNCHANGED <<bookVars, authVars, procs, resp>>

\* get_bot: redis.get("bot:{token}") answers.
GetBotCached ==
    /\ wk.h.pc = "get"
    /\ IF botCache[wk.h.tok] = NoBiz
       THEN Miss(wk.h, bots)
       ELSE /\ wk' = [wk EXCEPT !.h.pc = "dbget", !.h.cached = botCache[wk.h.tok]]
            /\ UNCHANGED resp
    /\ UNCHANGED <<bizVars, bots, shut, botCache, bizCache, outbox, chatVars, bookVars, authVars, procs>>

\* get_bot: Business.get_or_none(id) answers; an active business is
\* registered, and an already loaded token is returned as it is.
GetBotRow ==
    /\ wk.h.pc = "dbget"
    /\ LET row == BizRow(businesses, wk.h.cached) IN
       IF row.state = "live" /\ row.active
       THEN IF bots[row.token] # NoBiz
            THEN /\ IF bots[wk.h.tok] # NoBiz
                    THEN /\ wk' = [wk EXCEPT !.h.pc = "found",
                                             !.h.entry = bots[wk.h.tok]]
                         /\ UNCHANGED resp
                    ELSE Miss(wk.h, bots)
                 /\ UNCHANGED <<bots, shut>>
            ELSE /\ bots' = [bots EXCEPT ![row.token] = wk.h.cached]
                 /\ shut' = shut \ {row.token}
                 /\ wk' = [wk EXCEPT !.h.pc = "gsetex", !.h.cur = row.token]
                 /\ UNCHANGED resp
       ELSE /\ Miss(wk.h, bots)
            /\ UNCHANGED <<bots, shut>>
    /\ UNCHANGED <<bizVars, botCache, bizCache, outbox, chatVars, bookVars, authVars, procs>>

\* get_bot: the setex calls of register_bot answer; self.bots.get(token).
GetBotSetex ==
    /\ wk.h.pc = "gsetex"
    /\ botCache' = [botCache EXCEPT ![wk.h.cur] = wk.h.cached]
    /\ bizCache' = [bizCache EXCEPT ![wk.h.cached] = wk.h.cur]
    /\ IF bots[wk.h.tok] # NoBiz
       THEN /\ wk' = [wk EXCEPT !.h.pc = "found", !.h.cur = NULL,
                                !.h.entry = bots[wk.h.tok]]
            /\ UNCHANGED resp
       ELSE Miss([wk.h EXCEPT !.cur = NULL], bots)
    /\ UNCHANGED <<bizVars, bots, shut, outbox, chatVars, bookVars, authVars, procs>>

\* webhook_handler: SimpleRequestHandler(dispatcher, bot).handle(request)
\* with request['business_id'] of the entry get_bot returned.
WebhookDispatch ==
    /\ wk.h.pc = "found"
    /\ resp' = Resp("webhook",
                    [tok |-> wk.h.tok, business |-> wk.h.entry,
                     lookups |-> wk.h.lookups, reloads |-> wk.h.reloads],
                    "Dispatched")
    /\ wk' = [wk EXCEPT !.h = HIdle]
    /\ UNCHANGED <<bizVars, bots, shut, botCache, bizCache, outbox, chatVars, bookVars, authVars, procs>>

(***************************************************************************)
(* update_business and delete_business split at their awaits: the row is   *)
(* read, Telegram is called (webhook, bot_token key, reload message), the  *)
(* flag or the deletion is persisted. procs[1] is the request in progress. *)
(***************************************************************************)
InProgress(op, b, d) ==
    [pc |-> "hook", op |-> op, b |-> b, ok |-> TRUE,
     name |-> d.name, description |-> d.description]

\* A request that carries no name and no description.
NoText == [name |-> UNSET, description |-> UNSET]

\* update_business by the owner with is_active set: get_business_by_id.
BeginUpdate(b, d) ==
    /\ procs[1] = Idle
    /\ businesses[b].state = "live"
    /\ Activates(businesses[b], d) \/ Deactivates(businesses[b], d)
    /\ procs' = [procs EXCEPT ![1] =
           InProgress(IF d.active = "true" THEN "activate" ELSE "deactivate",
                      b, d)]
    /\ UNCHANGED <<bizVars, workerVars, bookVars, authVars, resp>>

\* delete_business by the owner: get_business_by_id.
BeginDelete(b) ==
    /\ procs[1] = Idle
    /\ businesses[b].state = "live"
    /\ procs' = [procs EXCEPT ![1] = InProgress("delete", b, NoText)]
    /\ UNCHANGED <<bizVars, workerVars, bookVars, authVars, resp>>

Registers(op) == op = "activate"

\* Whether anything is left to persist after the Telegram call.
NeedsSave(p, ok) ==
    \/ p.op = "activate" /\ ok
    \/ p.op \in {"deactivate", "delete"}
    \/ p.name # UNSET \/ p.description # UNSET

\* Mutation: the requested flag is saved whatever register_bot_webhook
\* returned.
SavedFlag_AsRequested(p) == p.op = "activate"

\* is_active of the row save() writes: update_fields['is_active'] when it
\* was set, the value that was read otherwise.
SavedFlag(p) == p.op = "activate" /\ p.ok

Answer(op) ==
    Resp(IF op = "delete" THEN "delete_business" ELSE "update_business",
         NULL, "ok")

\* register_bot_webhook / unregister_bot_webhook return.
CallTelegram(ok) ==
    /\ procs[1].pc = "hook"
    /\ LET p == procs[1]
           tok == businesses[p.b].token
       IN /\ IF Registers(p.op) THEN RegisterBotWebhook(tok, p.b, ok)
             ELSE UnregisterBotWebhook(tok, ok)
          /\ IF NeedsSave(p, ok)
             THEN /\ procs' = [procs EXCEPT ![1] = [p EXCEPT !.pc = "save", !.ok = ok]]
                  /\ UNCHANGED resp
             ELSE /\ procs' = [procs EXCEPT ![1] = Idle]
                  /\ resp' = Answer(p.op)
    /\ UNCHANGED <<businesses, dishes, uploads, workerVars, bookVars, authVars>>

\* business.save() / business.delete() returns.
PersistChange ==
    /\ procs[1].pc = "save"
    /\ LET p == procs[1] IN
       /\ IF p.op = "delete"
          THEN /\ businesses' = [businesses EXCEPT ![p.b] = GoneBiz]
               /\ dishes' = DishesWithout(dishes, p.b)
               /\ UNCHANGED uploads
               /\ tables' = TablesWithout(tables, p.b)
               /\ bookings' = BookingsWithout(bookings, p.b)
          ELSE /\ businesses' = [businesses EXCEPT ![p.b] =
                      [Described(@, p) EXCEPT
                          !.active = SavedFlag(p)]]
               /\ UNCHANGED <<dishes, uploads, tables, bookings>>
       /\ resp' = Answer(p.op)
    /\ procs' = [procs EXCEPT ![1] = Idle]
    /\ UNCHANGED <<hooks, mgmtCache, pending, workerVars, authVars>>

(***************************************************************************)
(* The same worker code run without interruption                           *)
(***************************************************************************)
\* register_bot stores a new Bot, whose session is open; the entries it
\* leaves alone stay as they are.
StillShut(sh, old, new) == {t \in sh : new[t] = old[t]}

NoEntry(bts, cache, keys) ==
    [entry |-> NoBiz, bots |-> bts, cache |-> cache, keys |-> keys]

\* BotRegistry.get_bot: the entry returned, the registry and the cache keys
\* it leaves.
GetBot(bts, cache, keys, bz, tok) ==
    IF bts[tok] # NoBiz
    THEN [entry |-> bts[tok], bots |-> bts, cache |-> cache, keys |-> keys]
    ELSE IF cache[tok] = NoBiz THEN NoEntry(bts, cache, keys)
    ELSE LET row == BizRow(bz, cache[tok]) IN
         IF row.state = "live" /\ row.active
         THEN [entry |-> cache[tok],
               bots |-> [bts EXCEPT ![row.token] = cache[tok]],
               cache |-> [cache EXCEPT ![row.token] = cache[tok]],
               keys |-> [keys EXCEPT ![cache[tok]] = row.token]]
         ELSE NoEntry(bts, cache, keys)

\* webhook_handler: get_bot, on a miss reload_all_bots and get_bot again.
Webhook(tok) ==
    /\ LET first == GetBot(bots, botCache, bizCache, businesses, tok)
           again == GetBot(ActiveBots(businesses), ActiveBots(businesses),
                           KeysFor(ActiveBots(businesses)), businesses, tok)
           got   == IF first.entry # NoBiz THEN first ELSE again
       IN /\ bots' = got.bots
          /\ shut' = IF first.entry # NoBiz THEN StillShut(shut, bots, got.bots)
                     ELSE {}
          /\ botCache' = got.cache
          /\ bizCache' = got.keys
          /\ resp' = Resp("webhook",
                 [tok |-> tok, business |-> got.entry,
                  lookups |-> IF first.entry # NoBiz THEN 1 ELSE 2,
                  reloads |-> IF first.entry # NoBiz THEN 0 ELSE 1],
                 IF got.entry # NoBiz THEN "Dispatched" ELSE "NotFound")
    /\ UNCHANGED <<bizVars, wk, outbox, chatVars, bookVars, authVars, procs>>

(***************************************************************************)
(* AI callback: ai_callback_handler of handlers/callback.py                *)
(***************************************************************************)
WEBHOOK_SECRET == "s3cret"

Secrets  == {UNSET, "wrong", WEBHOOK_SECRET}   \* UNSET: no secret key
Threads  == {UNSET, "th-known", "th-unknown"}
Messages == {UNSET, "not-json", "no-text", "text", "photo"}

\* Request bodies: JSON objects, and "other" for a body request.json()
\* rejects or that is no object.
CallbackBodies ==
    [kind : {"object"}, secret : Secrets, thread : Threads,
     business : {NoBiz} \cup BizIds, message : Messages]
    \cup {[kind |-> "other", secret |-> UNSET, thread |-> UNSET,
           business |-> NoBiz, message |-> UNSET]}

\* TGUser.filter(thread_id).first(): the chat of the one known thread.
ChatOf(thread) == IF thread = "th-known" THEN "chat-7" ELSE NULL

\* Mutation: the fields are validated before the secret is compared.
CallbackCheck_FieldsFirst(body) ==
    IF body.kind # "object" THEN "ServerError"
    ELSE IF body.thread = UNSET \/ body.message = UNSET \/ body.business = NoBiz
    THEN "MissingFields"
    ELSE IF body.secret # WEBHOOK_SECRET THEN "Forbidden"
    ELSE IF body.message = "not-json" THEN "InvalidMessage"
    ELSE IF body.message = "no-text" THEN "MissingText"
    ELSE IF ChatOf(body.thread) = NULL THEN "UserNotFound"
    ELSE "pass"

\* The checks of the handler up to the TGUser lookup, in their order.
CallbackCheck(body) ==
    IF body.kind # "object" THEN "ServerError"
    ELSE IF body.secret # WEBHOOK_SECRET THEN "Forbidden"
    ELSE IF body.thread = UNSET \/ body.message = UNSET \/ body.business = NoBiz
    THEN "MissingFields"
    ELSE IF body.message = "not-json" THEN "InvalidMessage"
    ELSE IF body.message = "no-text" THEN "MissingText"
    ELSE IF ChatOf(body.thread) = NULL THEN "UserNotFound"
    ELSE "pass"

\* redis.get("business_bot:{id}")
KeyOf(keys, b) == IF b \in DOMAIN keys THEN keys[b] ELSE NoToken

\* Mutation: without a cached token the first loaded bot answers, whatever
\* its business.
GetBotByBusiness_FirstLoaded(bts, cache, keys, bz, b) ==
    IF KeyOf(keys, b) # NoToken
    THEN GetBot(bts, cache, keys, bz, KeyOf(keys, b))
    ELSE IF \E t \in BotTokens : bts[t] # NoBiz
    THEN [entry |-> bts[CHOOSE t \in BotTokens : bts[t] # NoBiz],
          bots |-> bts, cache |-> cache, keys |-> keys]
    ELSE NoEntry(bts, cache, keys)

\* BotRegistry.get_bot_by_business: through business_bot:{id} and get_bot,
\* else the loaded bot of that business.
GetBotByBusiness(bts, cache, keys, bz, b) ==
    IF KeyOf(keys, b) # NoToken
    THEN GetBot(bts, cache, keys, bz, KeyOf(keys, b))
    ELSE IF TokensOf(bts, b) # {}
    THEN [entry |-> b, bots |-> bts, cache |-> cache, keys |-> keys]
    ELSE NoEntry(bts, cache, keys)

\* POST /ai-callback. photoOk: send_photo did not raise; textOk: send_message
\* did not raise. A send_message that raises, in the fallback too, reaches
\* the outer handler and is answered 500.
AiCallback(body, photoOk, textOk) ==
    /\ Len(outbox) < MaxSent
    /\ LET pre == CallbackCheck(body)
           got == GetBotByBusiness(bots, botCache, bizCache, businesses,
                                   body.business)
           msg(kind) == [chat |-> ChatOf(body.thread), business |-> got.entry,
                         kind |-> kind]
       IN IF pre # "pass"
          THEN /\ resp' = Resp("ai_callback", body, pre)
               /\ UNCHANGED <<bots, shut, botCache, bizCache, outbox>>
          ELSE /\ bots' = got.bots
               /\ shut' = StillShut(shut, bots, got.bots)
               /\ botCache' = got.cache
               /\ bizCache' = got.keys
               /\ IF got.entry = NoBiz
                  THEN /\ resp' = Resp("ai_callback", body, "BotNotFound")
                       /\ UNCHANGED outbox
                  ELSE IF body.message = "photo" /\ photoOk
                  THEN /\ outbox' = Append(outbox, msg("photo"))
                       /\ resp' = Resp("ai_callback", body, "ok")
                  ELSE IF textOk
                  THEN /\ outbox' = Append(outbox, msg("text"))
                       /\ resp' = Resp("ai_callback", body, "ok")
                  ELSE /\ resp' = Resp("ai_callback", body, "ServerError")
                       /\ UNCHANGED outbox
    /\ UNCHANGED <<bizVars, wk, chatVars, bookVars, authVars, procs>>

WkIdle == [r |-> RIdle, h |-> HIdle]

InitBotIdle ==
    /\ businesses = [b \in BizIds |-> AbsentBiz]
    /\ dishes = [d \in DishIds |-> GoneDish]
    /\ uploads = {}
    /\ hooks = {}
    /\ mgmtCache = NoMapping
    /\ pending = 0
    /\ bots = NoMapping
    /\ shut = {}
    /\ botCache = NoMapping
    /\ bizCache = KeysFor(botCache)
    /\ wk = WkIdle
    /\ outbox = <<>>
    /\ tgUsers = NoChats
    /\ aiPosts = {}

(***************************************************************************)
(* Specifications                                                          *)
(***************************************************************************)
InitAuthIdle ==
    /\ now = 0
    /\ codes = <<>>
    /\ users = <<>>
    /\ sessions = {}
    /\ nextSid = 0

InitBook ==
    /\ tables = InitTables
    /\ bookings = <<>>
    /\ InitAuthIdle
    /\ procs = [p \in Procs |-> Idle]
    /\ resp = Resp("none", NULL, "none")
    /\ InitBotIdle

NextBook ==
    \/ \E r \in BookingRequests : BookTable(r)
    \/ \E id \in 1 .. MaxBookings, u \in Owners : CancelBooking(id, u)

SpecBook == InitBook /\ [][NextBook]_vars

NextBookRace ==
    \/ \E p \in Procs, r \in BookingRequests : BookScan(p, r)
    \/ \E p \in Procs : BookInsert(p)
    \/ \E p \in Procs : BookSaveTable(p)

\* A database some sequential run leaves: empty, or one booking of table 1.
InitBookRace ==
    /\ tables \in {InitTables, MarkBooked(InitTables, 1)}
    /\ bookings = IF tables = InitTables THEN <<>>
                  ELSE <<NewBooking([table |-> 1, tg |-> 7, guests |-> 1,
                                     date |-> 0, time |-> 0, dur |-> 1], 0)>>
    /\ InitAuthIdle
    /\ procs = [p \in Procs |-> Idle]
    /\ resp = Resp("none", NULL, "none")
    /\ InitBotIdle

SpecBookRace == InitBookRace /\ [][NextBookRace]_vars

InitAuth ==
    /\ tables = InitTables
    /\ bookings = <<>>
    /\ InitAuthIdle
    /\ procs = [p \in Procs |-> Idle]
    /\ resp = Resp("none", NULL, "none")
    /\ InitBotIdle

\* Issuing and redeeming codes.
NextCodes ==
    \/ \E c \in Contacts, k \in Generated, d \in BOOLEAN : SendCode(c, k, d)
    \/ \E c \in Contacts, k \in CodeValues : VerifyCode(c, k)
    \/ CleanupExpiredCodes
    \/ \E t \in CodeInstants : Advance(t)

SpecCodes == InitAuth /\ [][NextCodes]_vars

\* A contact that requested a code every 61 seconds, up to one more than
\* the failed-attempt update reaches, and then only submits codes.
IssuedRows == 1 .. (FAILED_LIMIT + 1)

IssuedAt(i) == (RateWindow + 1) * (i - 1)

InitLockout ==
    /\ \E c \in Contacts, n \in IssuedRows :
          \E f \in [1 .. n -> CodeValues] :
              /\ codes = [i \in 1 .. n |-> NewCode(c, f[i], IssuedAt(i), i - 1)]
              /\ now = IssuedAt(n)
    /\ users = <<>>
    /\ sessions = {}
    /\ nextSid = 0
    /\ tables = InitTables
    /\ bookings = <<>>
    /\ procs = [p \in Procs |-> Idle]
    /\ resp = Resp("none", NULL, "none")
    /\ InitBotIdle

NextLockout == \E c \in Contacts, k \in TypedValues : VerifyCode(c, k)

\* A contact that requested a code every 61 seconds, all within the
\* lifetime of the first one, and the other contact requested one code
\* before or after them; they then only submit codes.
MistypeRows == FAILED_LIMIT + 3

IssuedValue(i) == IF i % 2 = 1 THEN "111111" ELSE "222222"

InitMistype ==
    /\ \E c \in Contacts, n \in 1 .. MistypeRows :
          \E o \in {1, n} :
              codes = [i \in 1 .. n |->
                          NewCode(IF i = o
                                  THEN CHOOSE x \in Contacts : x # c
                                  ELSE c,
                                  IssuedValue(i), IssuedAt(i), i - 1)]
    /\ now = IssuedAt(MistypeRows)
    /\ users = <<>>
    /\ sessions = {}
    /\ nextSid = 0
    /\ tables = InitTables
    /\ bookings = <<>>
    /\ procs = [p \in Procs |-> Idle]
    /\ resp = Resp("none", NULL, "none")
    /\ InitBotIdle

NextMistype == \E c \in Contacts, k \in TypedValues : VerifyCode(c, k)

SpecMistype == InitMistype /\ [][NextMistype]_vars

SpecLockout == InitLockout /\ [][NextLockout]_vars

\* Requesting codes around the rate-limit window; codes are typed correctly.
NextSend ==
    \/ \E c \in Contacts, k \in Generated, d \in BOOLEAN : SendCode(c, k, d)
    \/ \E c \in Contacts, k \in Generated : VerifyCode(c, k)
    \/ CleanupExpiredCodes
    \/ \E t \in SendInstants : Advance(t)

SpecSend == InitAuth /\ [][NextSend]_vars

NextSendRace ==
    \/ \E p \in Procs, c \in Contacts : SendLookup(p, c)
    \/ \E p \in Procs, k \in Generated, d \in BOOLEAN : SendCreate(p, k, d)
    \/ \E t \in RaceInstants : Elapse(t)

\* A database some sequential run leaves: empty, or one code sent at time 0.
InitSendRace ==
    /\ tables = InitTables
    /\ bookings = <<>>
    /\ now = 0
    /\ codes \in {<<>>} \cup {<<NewCode(c, "111111", 0, 0)>> : c \in Contacts}
    /\ users = <<>>
    /\ sessions = {}
    /\ nextSid = 0
    /\ procs = [p \in Procs |-> Idle]
    /\ resp = Resp("none", NULL, "none")
    /\ InitBotIdle

SpecSendRace == InitSendRace /\ [][NextSendRace]_vars

\* Logging in and using sessions; every code is delivered and typed correctly.
NextSessions ==
    \/ \E c \in Contacts, k \in Generated : SendCode(c, k, TRUE)
    \/ \E c \in Contacts, k \in Generated : VerifyCode(c, k)
    \/ \E tok \in Tokens : GetMe(tok)
    \/ \E tok \in Tokens : Logout(tok)
    \/ \E tok \in Tokens, sid \in Tokens : DeleteSession(tok, sid)
    \/ CleanupExpiredSessions
    \/ \E t \in SessionInstants : Advance(t)

SpecSessions == InitAuth /\ [][NextSessions]_vars

NextSessionsAdmin ==
    \/ NextSessions
    \/ \E u \in DOMAIN users : DeactivateUser(u)

SpecSessionsAdmin == InitAuth /\ [][NextSessionsAdmin]_vars

(***************************************************************************)
(* Properties of the booking service                                       *)
(***************************************************************************)
\* The half-open intervals [date+time, date+time+duration) of two rows meet.
IntervalsMeet(a, b) ==
    /\ a.date * DayLen + a.time < b.date * DayLen + b.time + b.dur
    /\ b.date * DayLen + b.time < a.date * DayLen + a.time + a.dur

LivePair(i, j) ==
    /\ i # j
    /\ ~bookings[i].cancelled /\ ~bookings[j].cancelled
    /\ bookings[i].table = bookings[j].table
    /\ bookings[i].date = bookings[j].date

\* C1: after any sequence of sequentially executed book_table and
\* cancel_booking calls, no two non-cancelled bookings of one table and one
\* booking_date have intersecting half-open intervals.
C1_NoOverlapSameDate ==
    \A i, j \in DOMAIN bookings :
        LivePair(i, j) => ~IntervalsMeet(bookings[i], bookings[j])

\* Two live bookings of one table and date that abut, after an overlapping
\* request was turned down.
C1_Witness ==
    /\ resp = Resp("book", NULL, "Conflict")
    /\ \E i, j \in DOMAIN bookings :
          /\ LivePair(i, j)
          /\ BEnd(bookings[i]) = BStart(bookings[j])

\* C2: under interleaved book_table requests two overlapping non-cancelled
\* bookings of one table are reachable, and only through the race: the later
\* row was inserted by a request whose overlap scan ran before the earlier
\* row existed.
C2_OverlapOnlyByRace ==
    \A i, j \in DOMAIN bookings :
        (LivePair(i, j) /\ i < j /\ IntervalsMeet(bookings[i], bookings[j]))
            => bookings[j].seen < i

\* Both requests answered 201 and their rows overlap.
C2_Witness ==
    /\ \A p \in Procs : procs[p].pc = "done" /\ procs[p].result = "Created"
    /\ \E i, j \in DOMAIN bookings :
          LivePair(i, j) /\ IntervalsMeet(bookings[i], bookings[j])

(***************************************************************************)
(* Properties of the authentication service                                *)
(***************************************************************************)
\* Stored codes of contact c whose hash is that of the typed code k, and the
\* most recently created of them.
RowsFor(c, k) ==
    {i \in DOMAIN codes : codes[i].contact = c /\ codes[i].hash = <<"sha256", k>>}

LatestFor(c, k) ==
    {i \in RowsFor(c, k) : \A j \in RowsFor(c, k) : codes[j].created <= codes[i].created}

UserRows(us, c) == {u \in DOMAIN us : us[u].email = c \/ us[u].phone = c}

SessionFor(ss, tok) == {s \in ss : s.hash = <<"sha256", tok>>}

Redeemable(v) == ~v.used /\ now <= v.expires /\ v.attempts < 3

LoginEffect(c, i) ==
    /\ resp'.result = "ok"
    /\ IF UserRows(users, c) # {}
       THEN users' = users
       ELSE /\ Len(users') = Len(users) + 1
            /\ SubSeq(users', 1, Len(users)) = users
            /\ users'[Len(users')].verified
    /\ Cardinality(UserRows(users', c)) = 1
    /\ codes' = [codes EXCEPT ![i].used = TRUE]
    /\ nextSid' = nextSid + 1
    /\ \E s \in sessions' :
          /\ s \notin sessions
          /\ sessions' = sessions \cup {s}
          /\ s.user \in UserRows(users', c)
          /\ s.hash = <<"sha256", nextSid'>>

Untouched ==
    /\ users' = users
    /\ sessions' = sessions
    /\ nextSid' = nextSid
    /\ codes' = codes

\* C3 (amended): a verify that finds a matching, unused, unexpired code with
\* attempts < 3 resolves the contact's user or creates exactly one verified
\* user, marks that code used and creates exactly one session for that user;
\* a later verify whose most recent matching code is that used row fails
\* with CodeAlreadyUsed and creates nothing.
C3_VerifyLogin ==
    [][\A c \in Contacts, k \in CodeValues :
          VerifyCode(c, k) =>
              \A i \in LatestFor(c, k) :
                  /\ Redeemable(codes[i]) => LoginEffect(c, i)
                  /\ codes[i].used =>
                        (resp'.result = "CodeAlreadyUsed" /\ Untouched)]_vars

\* C3 as stated: once a code of the contact has been redeemed, every later
\* verify with that contact and code fails with CodeAlreadyUsed and creates
\* no session.
C3_Original ==
    [][\A c \in Contacts, k \in CodeValues :
          VerifyCode(c, k) =>
              /\ \A i \in LatestFor(c, k) : Redeemable(codes[i]) => LoginEffect(c, i)
              /\ (\E j \in RowsFor(c, k) : codes[j].used) =>
                    (resp'.result = "CodeAlreadyUsed" /\ sessions' = sessions)]_vars

\* A second login of one contact: one user row, two sessions of that user.
C3_Witness ==
    /\ resp = Resp("verify", NULL, "ok")
    /\ Len(users) = 1
    /\ Cardinality({s \in sessions : s.user = 1}) = 2

VerifyOutcome(v) ==
    IF v.used THEN "CodeAlreadyUsed"
    ELSE IF now > v.expires THEN "VerificationCodeExpired"
    ELSE IF v.attempts >= 3 THEN "TooManyAttempts"
    ELSE "ok"

\* C4: on a matching code verify checks is_used, then expiry, then
\* attempts >= 3; a failing check creates no user and no session and leaves
\* the code rows as they were.
C4_CheckOrder ==
    [][\A c \in Contacts, k \in CodeValues :
          VerifyCode(c, k) =>
              \A i \in LatestFor(c, k) :
                  /\ resp'.result = VerifyOutcome(codes[i])
                  /\ resp'.result # "ok" => Untouched]_vars

\* An unused code that is both expired and exhausted is reported expired.
C4_Witness ==
    /\ resp = Resp("verify", NULL, "VerificationCodeExpired")
    /\ Len(codes) = 1
    /\ ~codes[1].used /\ now > codes[1].expires /\ codes[1].attempts >= 3

Exhausted(v) == v.attempts >= 3 /\ ~v.used

NewestUnused(c) ==
    {i \in DOMAIN codes :
        /\ codes[i].contact = c /\ ~codes[i].used
        /\ \A j \in DOMAIN codes :
              (codes[j].contact = c /\ ~codes[j].used)
                  => codes[j].created <= codes[i].created}

\* Every incorrect submission increments the contact's most recent unused
\* code, and nothing else increments it: its counter is a lower bound on the
\* number of incorrect submissions made since it was issued, hence while the
\* contact held any code that is still unused.
CountedWrong(c) == \E j \in NewestUnused(c) : codes[j].attempts >= 3

\* C5 as stated: for a contact holding a valid, unexpired, unused code, after
\* 3 submissions of an incorrect code a submission of the correct code fails
\* with TooManyAttempts and creates no session; a code whose counter has
\* reached 3 never becomes used, and every session comes from a code whose
\* counter was below 3.
C5_Original ==
    [][\A c \in Contacts, k \in TypedValues :
          VerifyCode(c, k) =>
              /\ \A i \in LatestFor(c, k) :
                    (~codes[i].used /\ now <= codes[i].expires /\ CountedWrong(c))
                        => (resp'.result = "TooManyAttempts" /\ sessions' = sessions)
              /\ \A i \in DOMAIN codes : Exhausted(codes[i]) => Exhausted(codes'[i])
              /\ sessions' # sessions =>
                    \E i \in DOMAIN codes :
                        ~codes[i].used /\ codes'[i].used /\ codes[i].attempts < 3]_vars

\* C6: send_verification_code is rejected with RateLimit and stores nothing
\* whenever a code of the contact was created in the last 60 seconds;
\* otherwise it stores exactly one new row with attempts 0 and is_used false.
\* Whether it is rejected depends on the stored rows and the clock alone, so
\* a rejected call does not extend the window.
C6_RateLimit ==
    [][\A c \in Contacts, k \in Generated, d \in BOOLEAN :
          SendCode(c, k, d) =>
              IF \E i \in DOMAIN codes :
                     codes[i].contact = c /\ now - codes[i].created <= 60
              THEN resp'.result = "RateLimit" /\ codes' = codes
              ELSE /\ resp'.result = (IF d THEN "ok" ELSE "SendFailed")
                   /\ Len(codes') = Len(codes) + 1
                   /\ SubSeq(codes', 1, Len(codes)) = codes
                   /\ codes'[Len(codes')].contact = c
                   /\ codes'[Len(codes')].created = now
                   /\ codes'[Len(codes')].attempts = 0
                   /\ ~codes'[Len(codes')].used]_vars

\* A second code of one contact, accepted 61 seconds after the first.
C6_Witness ==
    /\ resp = Resp("send", NULL, "ok")
    /\ now = 61
    /\ \E i, j \in DOMAIN codes :
          /\ codes[i].contact = codes[j].contact
          /\ codes[i].created = 0 /\ codes[j].created = 61

\* C7: two codes of one contact created within 60 seconds of each other are
\* reachable when requests interleave, and only then: the later row was
\* stored by a request whose rate-limit lookup ran before the earlier row
\* existed. Requests that do not overlap never store two such rows.
C7_WindowOnlyByRace ==
    \A i, j \in DOMAIN codes :
        (/\ i < j
         /\ codes[i].contact = codes[j].contact
         /\ codes[j].created - codes[i].created <= 60)
            => codes[j].seen < i

\* Both requests were accepted and their rows lie in one window.
C7_Witness ==
    /\ \A p \in Procs : procs[p].pc = "done" /\ procs[p].result = "ok"
    /\ \E i, j \in DOMAIN codes :
          /\ i < j
          /\ codes[i].contact = codes[j].contact
          /\ codes[j].created - codes[i].created <= 60

\* C8: the token returned by a successful verify resolves for as long as its
\* session is stored and unexpired; logout removes exactly the session of the
\* presented token; a token whose session is gone never has a session again,
\* and resolving it fails with InvalidSession.
C8_Lifecycle ==
    [][/\ (resp'.op = "verify" /\ resp'.result = "ok") =>
             (nextSid' = nextSid + 1 /\ SessionFor(sessions', nextSid') # {})
       /\ \A tok \in Tokens :
             GetMe(tok) =>
                 /\ resp'.result = "ok" <=>
                       \E s \in SessionFor(sessions, tok) : now <= s.expires
                 /\ SessionFor(sessions, tok) = {} => resp'.result = "InvalidSession"
       /\ \A tok \in Tokens :
             Logout(tok) =>
                 /\ SessionFor(sessions', tok) = {}
                 /\ sessions' = sessions \ SessionFor(sessions, tok)
       /\ \A tok \in 1 .. nextSid :
             SessionFor(sessions, tok) = {} => SessionFor(sessions', tok) = {}]_vars

\* At time 0 (nothing can have expired) an issued token is refused while
\* the session of the other token is still stored.
C8_Witness ==
    /\ now = 0
    /\ nextSid = 2
    /\ Cardinality(sessions) = 1
    /\ \E tok \in 1 .. nextSid :
          resp = Resp("me", tok, "InvalidSession") /\ SessionFor(sessions, tok) = {}

\* C9: resolving a token: no session -> InvalidSession; session past
\* expires_at -> the row is deleted and SessionExpired is raised; otherwise
\* last_activity is refreshed and the user is returned, or UserNotActive is
\* raised when the user's is_active is false.
C9_Resolve ==
    [][\A tok \in Tokens :
          GetMe(tok) =>
              IF SessionFor(sessions, tok) = {}
              THEN resp'.result = "InvalidSession" /\ sessions' = sessions
              ELSE \A s \in SessionFor(sessions, tok) :
                      IF now > s.expires
                      THEN /\ resp'.result = "SessionExpired"
                           /\ sessions' = sessions \ {s}
                      ELSE /\ sessions' = (sessions \ {s}) \cup {[s EXCEPT !.last = now]}
                           /\ resp'.result =
                                 (IF users[s.user].active THEN "ok" ELSE "UserNotActive")]_vars

\* A deactivated user is refused although the session was refreshed.
C9_Witness ==
    /\ now > 0
    /\ \E s \in sessions :
          /\ resp = Resp("me", s.id, "UserNotActive")
          /\ s.last = now
          /\ ~users[s.user].active

\* C10: DELETE /auth/sessions/{sid} by an authenticated user deletes the
\* session sid when it belongs to that user and nothing else; for a sid of
\* another user's session, or of none, it answers NotFound and the session
\* stays stored as it was.
C10_DeleteOwn ==
    [][\A tok \in Tokens, sid \in Tokens :
          (DeleteSession(tok, sid)
              /\ \E m \in SessionFor(sessions, tok) : now <= m.expires) =>
              \A m \in SessionFor(sessions, tok) :
                  IF \E s \in sessions : s.id = sid /\ s.user = m.user
                  THEN /\ resp'.result = "ok"
                       /\ \A s \in sessions' : s.id # sid
                       /\ \A s \in sessions :
                             (s.id # sid /\ s.id # m.id) => s \in sessions'
                  ELSE /\ resp'.result = "NotFound"
                       /\ \A s \in sessions : s.id = sid => s \in sessions']_vars

\* The session of another user was named, refused, and is still stored.
C10_Witness ==
    \E m \in sessions, s \in sessions :
        /\ m.user # s.user
        /\ resp = Resp("delete_session", <<m.id, s.id>>, "NotFound")

(***************************************************************************)
(* Specifications of the business, dish and table administration           *)
(***************************************************************************)
SeedBusinesses ==
    [b \in BizIds |->
        NewBusiness(OwnerOf(b), IF b = 1 THEN "tokA" ELSE "tokB", "n0")]

SeedDishes ==
    [d \in DishIds |->
        [state |-> "live", business |-> d, title |-> "n0", image |-> d]]

\* The upload directory holds the image of every seeded dish.
SeedUploads == {SeedDishes[d].image : d \in DishIds}

SeedMapping == [t \in BotTokens |-> IF t = "tokA" THEN 1 ELSE 2]

\* Two owners with one active business, one dish and one table each.
InitAccess ==
    /\ tables = InitTables
    /\ bookings = <<>>
    /\ InitAuthIdle
    /\ procs = [p \in Procs |-> Idle]
    /\ resp = Resp("none", NULL, "none")
    /\ businesses = SeedBusinesses
    /\ dishes = SeedDishes
    /\ uploads = SeedUploads
    /\ hooks = BotTokens
    /\ mgmtCache = SeedMapping
    /\ pending = 0
    /\ bots = SeedMapping
    /\ shut = {}
    /\ botCache = SeedMapping
    /\ bizCache = KeysFor(botCache)
    /\ wk = WkIdle
    /\ outbox = <<>>
    /\ tgUsers = NoChats
    /\ aiPosts = {}

\* Bodies the schema accepts that rename the business.
RenameBodies ==
    {d \in UpdateBodies :
        d.token = UNSET /\ d.active = UNSET /\ d.description = UNSET}

NextAccess ==
    \/ \E b \in AnyBizId, u \in Owners : GetBusiness(b, u)
    \/ \E b \in AnyBizId, u \in Owners, d \in RenameBodies :
          UpdateBusiness(b, u, d, TRUE)
    \/ \E b \in AnyBizId, u \in Owners, ok \in BOOLEAN : DeleteBusiness(b, u, ok)
    \/ \E d \in AnyDishId, u \in Owners : GetDish(d, u)
    \/ \E d \in AnyDishId, u \in Owners : UpdateDish(d, u, "n1", UNSET)
    \/ \E d \in AnyDishId, u \in Owners : DeleteDish(d, u)
    \/ \E t \in AnyTableId, u \in Owners : GetTable(t, u)
    \/ \E b \in AnyBizId, u \in Owners : GetTables(b, u)
    \/ \E t \in AnyTableId, u \in Owners, c \in Capacities : UpdateTable(t, u, c)
    \/ \E t \in AnyTableId, u \in Owners : DeleteTable(t, u)
    \/ ReloadMessage

SpecAccess == InitAccess /\ [][NextAccess]_vars

\* Bodies that leave the name alone.
FlagBodies ==
    {d \in UpdateBodies : d.name = UNSET /\ d.description = UNSET}

InitBiz ==
    /\ tables = InitTables
    /\ bookings = <<>>
    /\ InitAuthIdle
    /\ procs = [p \in Procs |-> Idle]
    /\ resp = Resp("none", NULL, "none")
    /\ InitBotIdle

NextBiz ==
    \/ \E tok \in BotTokens, verified \in BOOLEAN, ok \in BOOLEAN :
          CreateBusiness("alice", tok, "n0", verified, ok)
    \/ \E b \in BizIds, u \in Owners, d \in FlagBodies, ok \in BOOLEAN :
          UpdateBusiness(b, u, d, ok)
    \/ \E b \in BizIds, u \in Owners, ok \in BOOLEAN : DeleteBusiness(b, u, ok)
    \/ ReloadMessage

SpecBiz == InitBiz /\ [][NextBiz]_vars

\* One active business whose bot the worker loaded when it started.
InitReload ==
    /\ tables = InitTables
    /\ bookings = <<>>
    /\ InitAuthIdle
    /\ procs = [p \in Procs |-> Idle]
    /\ resp = Resp("none", NULL, "none")
    /\ businesses = [b \in BizIds |->
           IF b = 1 THEN NewBusiness("alice", "tokA", "n0") ELSE AbsentBiz]
    /\ dishes = [d \in DishIds |-> GoneDish]
    /\ uploads = {}
    /\ hooks = {"tokA"}
    /\ mgmtCache = [NoMapping EXCEPT !["tokA"] = 1]
    /\ pending = 0
    /\ bots = [NoMapping EXCEPT !["tokA"] = 1]
    /\ shut = {}
    /\ botCache = [NoMapping EXCEPT !["tokA"] = 1]
    /\ bizCache = KeysFor(botCache)
    /\ wk = WkIdle
    /\ outbox = <<>>
    /\ tgUsers = NoChats
    /\ aiPosts = {}

NextReload ==
    \/ \E b \in BizIds, d \in FlagBodies : BeginUpdate(b, d)
    \/ \E b \in BizIds : BeginDelete(b)
    \/ \E ok \in BOOLEAN : CallTelegram(ok)
    \/ PersistChange
    \/ ReloadMessage
    \/ \E tok \in BotTokens : Webhook(tok)

SpecReload == InitReload /\ [][NextReload]_vars

\* The business operations the worker races with: the owner of business 1
\* switches is_active.
NextWorker ==
    \/ \E d \in FlagBodies, ok \in BOOLEAN : UpdateBusiness(1, "alice", d, ok)
    \/ ListenerTake
    \/ \E k \in Coroutines : ReloadClose(k, TRUE)
    \/ \E k \in Coroutines : ReloadScan(k)
    \/ \E k \in Coroutines : ReloadQuery(k)
    \/ \E k \in Coroutines : ReloadSetex(k)
    \/ \E tok \in BotTokens : WebhookStart(tok)
    \/ GetBotCached
    \/ GetBotRow
    \/ GetBotSetex
    \/ WebhookDispatch

SpecWorker == InitReload /\ [][NextWorker]_vars

\* create_business has just completed for business 1: the row is active,
\* the webhook is set and the reload message is on the channel of a worker
\* that started when there was no business yet.
InitArrival ==
    /\ tables = InitTables
    /\ bookings = <<>>
    /\ InitAuthIdle
    /\ procs = [p \in Procs |-> Idle]
    /\ resp = Resp("create_business", NULL, "Created")
    /\ businesses = [b \in BizIds |->
           IF b = 1 THEN NewBusiness("alice", "tokA", "n0") ELSE AbsentBiz]
    /\ dishes = [d \in DishIds |-> GoneDish]
    /\ uploads = {}
    /\ hooks = {"tokA"}
    /\ mgmtCache = [NoMapping EXCEPT !["tokA"] = 1]
    /\ pending = 1
    /\ bots = NoMapping
    /\ shut = {}
    /\ botCache = NoMapping
    /\ bizCache = KeysFor(botCache)
    /\ wk = WkIdle
    /\ outbox = <<>>
    /\ tgUsers = NoChats
    /\ aiPosts = {}

\* The worker alone: its listener and webhook requests.
NextArrival ==
    \/ ListenerTake
    \/ \E k \in Coroutines : ReloadClose(k, TRUE)
    \/ \E k \in Coroutines : ReloadScan(k)
    \/ \E k \in Coroutines : ReloadQuery(k)
    \/ \E k \in Coroutines : ReloadSetex(k)
    \/ \E tok \in BotTokens : WebhookStart(tok)
    \/ GetBotCached
    \/ GetBotRow
    \/ GetBotSetex
    \/ WebhookDispatch

SpecArrival == InitArrival /\ [][NextArrival]_vars

\* Business 1 is active; this worker has its bot loaded or not, and the
\* shared cache holds its keys or not.
InitCallback ==
    /\ tables = InitTables
    /\ bookings = <<>>
    /\ InitAuthIdle
    /\ procs = [p \in Procs |-> Idle]
    /\ resp = Resp("none", NULL, "none")
    /\ businesses = [b \in BizIds |->
           IF b = 1 THEN NewBusiness("alice", "tokA", "n0") ELSE AbsentBiz]
    /\ dishes = [d \in DishIds |-> GoneDish]
    /\ uploads = {}
    /\ hooks = {"tokA"}
    /\ mgmtCache = [NoMapping EXCEPT !["tokA"] = 1]
    /\ pending = 0
    /\ bots \in {NoMapping, [NoMapping EXCEPT !["tokA"] = 1]}
    /\ shut = {}
    /\ botCache \in {NoMapping, [NoMapping EXCEPT !["tokA"] = 1]}
    /\ bizCache = KeysFor(botCache)
    /\ wk = WkIdle
    /\ outbox = <<>>
    /\ tgUsers = NoChats
    /\ aiPosts = {}

NextCallback ==
    \E body \in CallbackBodies, photoOk \in BOOLEAN, textOk \in BOOLEAN :
        AiCallback(body, photoOk, textOk)

SpecCallback == InitCallback /\ [][NextCallback]_vars

(***************************************************************************)
(* AI callback delivery: two live businesses, each with its own bot        *)
(***************************************************************************)
LoadedSets ==
    {NoMapping, [NoMapping EXCEPT !["tokA"] = 1],
     [NoMapping EXCEPT !["tokA"] = 1, !["tokB"] = 2]}

InitDeliver ==
    /\ tables = InitTables
    /\ bookings = <<>>
    /\ InitAuthIdle
    /\ procs = [p \in Procs |-> Idle]
    /\ resp = Resp("none", NULL, "none")
    /\ businesses = [b \in BizIds |->
           IF b = 1 THEN NewBusiness("alice", "tokA", "n0")
           ELSE NewBusiness("bob", "tokB", "n1")]
    /\ dishes = [d \in DishIds |-> GoneDish]
    /\ uploads = {}
    /\ hooks = {"tokA", "tokB"}
    /\ mgmtCache = [NoMapping EXCEPT !["tokA"] = 1, !["tokB"] = 2]
    /\ pending = 0
    /\ bots \in LoadedSets
    /\ shut = {}
    /\ botCache \in LoadedSets
    /\ bizCache = KeysFor(botCache)
    /\ wk = WkIdle
    /\ outbox = <<>>
    /\ tgUsers = NoChats
    /\ aiPosts = {}

\* The callbacks that carry the configured secret.
SignedBodies == {body \in CallbackBodies : body.secret = WEBHOOK_SECRET}

NextDeliver ==
    \E body \in SignedBodies, photoOk \in BOOLEAN, textOk \in BOOLEAN :
        AiCallback(body, photoOk, textOk)

SpecDeliver == InitDeliver /\ [][NextDeliver]_vars

(***************************************************************************)
(* Bookings and cancellations of guests that fit the tables                *)
(***************************************************************************)
\* Requests that pass the table, capacity and TGUser checks of book_table.
SlotRequests == {r \in BookingRequests : BookPrecheck(InitTables, r) = "pass"}

NextSlots ==
    \/ \E r \in SlotRequests : BookTable(r)
    \/ \E id \in 1 .. MaxBookings, u \in Owners : CancelBooking(id, u)

SpecSlots == InitBook /\ [][NextSlots]_vars

(***************************************************************************)
(* The tables of business 1: bulk resize, update, delete and bookings      *)
(***************************************************************************)
Targets == 1 .. MaxRows                 \* total_tables: Field(gt=0)

\* The ids the tables of business 1 can have.
FloorIds == {1 + Cardinality(BizIds) * k : k \in 0 .. MaxRows - 1}

InitFloor ==
    /\ tables = InitTables
    /\ bookings = <<>>
    /\ InitAuthIdle
    /\ procs = [p \in Procs |-> Idle]
    /\ resp = Resp("none", NULL, "none")
    /\ businesses = SeedBusinesses
    /\ dishes = SeedDishes
    /\ uploads = SeedUploads
    /\ hooks = BotTokens
    /\ mgmtCache = SeedMapping
    /\ pending = 0
    /\ bots = SeedMapping
    /\ shut = {}
    /\ botCache = SeedMapping
    /\ bizCache = KeysFor(botCache)
    /\ wk = WkIdle
    /\ outbox = <<>>
    /\ tgUsers = NoChats
    /\ aiPosts = {}

\* Resizes, updates and deletes by the owner, and bookings of table 1 by
\* parties of one or two.
PartyRequests ==
    [table : {1}, tg : KnownTg, guests : Capacities, date : {0}, time : {0},
     dur : {1}]

NextResize ==
    \/ \E u \in Owners, target \in Targets, cap \in Capacities :
          BulkUpdateTables(1, u, target, cap)
    \/ \E t \in DOMAIN tables, cap \in Capacities : UpdateTable(t, "alice", cap)
    \/ \E t \in DOMAIN tables : DeleteTable(t, "alice")
    \/ \E r \in PartyRequests : BookTable(r)

SpecResize == InitFloor /\ [][NextResize]_vars

\* Resizes while single guests book and cancel any table of the business,
\* for today and tomorrow, and the day passes.
FloorRequests ==
    [table : FloorIds, tg : KnownTg, guests : {1}, date : Dates, time : {0},
     dur : {1}]

NextShrink ==
    \/ \E target \in Targets : BulkUpdateTables(1, "alice", target, 1)
    \/ \E r \in FloorRequests : BookTable(r)
    \/ \E id \in DOMAIN bookings : CancelBooking(id, "alice")
    \/ Elapse(86400)

SpecShrink == InitFloor /\ [][NextShrink]_vars

(***************************************************************************)
(* Searches over a catalogue of two dishes                                 *)
(***************************************************************************)
Vegan   == <<"v", "g">>
Dessert == <<"d", "s">>
Italian == <<"i", "t">>
Asian   == <<"a", "s">>

\* The dishes a catalogue is drawn from: one whose only mention of Vegan is
\* a tag, one with it in its title in upper case, one with it among the
\* ingredients of an Asian main, and one that mentions none of the words.
DishKinds ==
    {[state |-> "live", business |-> 1, title |-> <<"p">>, description |-> <<"x">>,
      category |-> Dessert, cuisine |-> <<>>, tags |-> <<Vegan>>,
      ingredients |-> <<>>, allergens |-> <<>>, available |-> TRUE, price |-> 1,
      image |-> 1],
     [state |-> "live", business |-> 1, title |-> <<"V", "g", "x">>,
      description |-> <<"x">>, category |-> <<"m">>, cuisine |-> Italian,
      tags |-> <<>>, ingredients |-> <<>>, allergens |-> <<>>,
      available |-> TRUE, price |-> 2,
      image |-> 1],
     [state |-> "live", business |-> 2, title |-> <<"p">>, description |-> <<"x">>,
      category |-> <<"m">>, cuisine |-> Asian, tags |-> <<>>,
      ingredients |-> <<Vegan, <<"x">>>>, allergens |-> <<Dessert>>,
      available |-> FALSE, price |-> 1,
      image |-> 1],
     [state |-> "live", business |-> 2, title |-> <<"p">>, description |-> <<"x">>,
      category |-> <<>>, cuisine |-> <<>>, tags |-> <<>>, ingredients |-> <<>>,
      allergens |-> <<>>, available |-> TRUE, price |-> 2,
      image |-> 1]}

KeywordLists ==
    {<<>>, <<Vegan>>, <<Dessert>>, <<<<" ">>>>, <<<<" ", "V", "g">>>>,
     <<Italian, Dessert>>}

Queries ==
    [keywords : KeywordLists, business : {NoBiz, 1},
     categories : {<<>>, <<Dessert>>}, cuisines : {<<>>, <<Italian>>},
     available : {UNSET, "true"}, priced : BOOLEAN, price_max : {1}]

InitSearch ==
    /\ tables = InitTables
    /\ bookings = <<>>
    /\ InitAuthIdle
    /\ procs = [p \in Procs |-> Idle]
    /\ resp = Resp("none", NULL, "none")
    /\ businesses = SeedBusinesses
    /\ dishes \in [DishIds -> DishKinds]
    /\ uploads = {1}
    /\ hooks = BotTokens
    /\ mgmtCache = SeedMapping
    /\ pending = 0
    /\ bots = SeedMapping
    /\ shut = {}
    /\ botCache = SeedMapping
    /\ bizCache = KeysFor(botCache)
    /\ wk = WkIdle
    /\ outbox = <<>>
    /\ tgUsers = NoChats
    /\ aiPosts = {}

NextSearch == \E q \in Queries : SearchDishes(q)

SpecSearch == InitSearch /\ [][NextSearch]_vars

(***************************************************************************)
(* PUT /businesses/{id} on two active businesses. A request of the owner   *)
(* that switches is_active awaits Telegram and runs in steps; every other  *)
(* request awaits nothing but the database and runs in one.                *)
(***************************************************************************)
PutBodies == {d \in UpdateBodies : d.token = UNSET}

Switches(b, u, d) ==
    /\ BusinessCheck(businesses, b, u) = "pass"
    /\ Activates(businesses[b], d) \/ Deactivates(businesses[b], d)

NextToggle ==
    \/ \E b \in BizIds, d \in PutBodies : BeginUpdate(b, d)
    \/ \E ok \in BOOLEAN : CallTelegram(ok)
    \/ PersistChange
    \/ \E b \in BizIds, u \in Owners, d \in PutBodies :
          /\ procs[1] = Idle
          /\ ~Switches(b, u, d)
          /\ UpdateBusiness(b, u, d, TRUE)
    \/ ReloadMessage

SpecToggle == InitAccess /\ [][NextToggle]_vars

(***************************************************************************)
(* The registry of one worker over a database that does not change         *)
(***************************************************************************)
\* Business 1 was created with tokA, business 2 later with either token;
\* each is active, switched off or deleted.
RowStates(u, tok) ==
    {NewBusiness(u, tok, "n0"),
     [NewBusiness(u, tok, "n0") EXCEPT !.active = FALSE],
     GoneBiz}

RegistryRows ==
    {bz \in [BizIds -> RowStates("alice", "tokA") \cup RowStates("bob", "tokA")
                          \cup RowStates("bob", "tokB")] :
        /\ bz[1] \in RowStates("alice", "tokA")
        /\ bz[2] \in RowStates("bob", "tokA") \cup RowStates("bob", "tokB")}

\* What an earlier load can have left in self.bots: under a token, a
\* business that was created with it.
LeftLoaded ==
    {m \in [BotTokens -> {NoBiz} \cup BizIds] :
        \A t \in BotTokens :
            m[t] # NoBiz =>
                \/ m[t] = 1 /\ t = "tokA"
                \/ m[t] = 2 /\ (businesses[2].state = "deleted"
                                 \/ businesses[2].token = t)}

InitRegistry ==
    /\ tables = InitTables
    /\ bookings = <<>>
    /\ InitAuthIdle
    /\ procs = [p \in Procs |-> Idle]
    /\ resp = Resp("none", NULL, "none")
    /\ businesses \in RegistryRows
    /\ dishes = [d \in DishIds |-> GoneDish]
    /\ uploads = {}
    /\ hooks = {}
    /\ mgmtCache = NoMapping
    /\ pending = 1
    /\ bots \in LeftLoaded
    /\ shut = {}
    /\ botCache = bots
    /\ bizCache = KeysFor(botCache)
    /\ wk = WkIdle
    /\ outbox = <<>>
    /\ tgUsers = NoChats
    /\ aiPosts = {}

\* The listener alone: one reload_all_bots from its message to its end.
NextAlone ==
    \/ ListenerTake
    \/ \E ok \in BOOLEAN : ReloadClose("r", ok)
    \/ ReloadScan("r")
    \/ ReloadQuery("r")
    \/ ReloadSetex("r")

SpecAlone == InitRegistry /\ [][NextAlone]_vars

(***************************************************************************)
(* The two Telegram calls of BotManagerService on their own                *)
(***************************************************************************)
NextHooks ==
    \/ \E tok \in BotTokens, b \in BizIds, tg \in TelegramAnswers,
          cache \in BOOLEAN, pub \in BOOLEAN :
          RegisterCall(tok, b, tg, cache, pub)
    \/ \E tok \in BotTokens, tg \in TelegramAnswers,
          cache \in BOOLEAN, pub \in BOOLEAN :
          UnregisterCall(tok, tg, cache, pub)
    \/ ReloadMessage

SpecHooks == InitAccess /\ [][NextHooks]_vars

(***************************************************************************)
(* Dishes and their image files                                            *)
(***************************************************************************)
NextDishes ==
    \/ \E b \in BizIds, u \in Owners, image \in Images :
          CreateDish(b, u, "n0", image)
    \/ \E d \in DishIds, u \in Owners, title \in {UNSET, "n1"},
          image \in Images \cup {UNSET} : UpdateDish(d, u, title, image)
    \/ \E d \in DishIds, u \in Owners : DeleteDish(d, u)

SpecDishes == InitAccess /\ [][NextDishes]_vars

(***************************************************************************)
(* Properties of the business, dish and table administration               *)
(***************************************************************************)
\* The answer a request by u must get on a resource that is missing or
\* belongs to somebody else, and the resources it must leave alone.
Refused(exists, owner, u) ==
    /\ ~exists => resp'.result = "NotFound"
    /\ exists /\ owner # u =>
          /\ resp'.result = "AccessDenied"
          /\ UNCHANGED <<businesses, dishes, tables>>

OnBusiness(b, u) ==
    \/ GetBusiness(b, u)
    \/ \E d \in RenameBodies : UpdateBusiness(b, u, d, TRUE)
    \/ \E ok \in BOOLEAN : DeleteBusiness(b, u, ok)

OnDish(d, u) == GetDish(d, u) \/ UpdateDish(d, u, "n1", UNSET) \/ DeleteDish(d, u)

OnTable(t, u) ==
    \/ GetTable(t, u)
    \/ \E c \in Capacities : UpdateTable(t, u, c)
    \/ DeleteTable(t, u)

\* C11 as stated: every GET, PUT or DELETE of a business, dish or table by
\* a user who does not own it is answered 403 (404 if the resource does not
\* exist) and leaves the resource unchanged.
C11_Original ==
    [][\A u \in Owners :
        /\ \A b \in AnyBizId :
              OnBusiness(b, u) =>
                 Refused(BizRow(businesses, b).state = "live",
                         BizRow(businesses, b).owner, u)
        /\ \A d \in AnyDishId :
              OnDish(d, u) =>
                 Refused(DishRow(dishes, d).state = "live",
                         BizRow(businesses, DishRow(dishes, d).business).owner, u)
        /\ \A t \in AnyTableId :
              OnTable(t, u) =>
                 Refused(t \in DOMAIN tables,
                         BizRow(businesses, TableBiz(t)).owner, u)]_vars

\* No other existing business carries the token of business b.
OwnToken(b) ==
    \A c \in BizIds \ {b} :
        businesses[c].state = "live" => businesses[c].token # businesses[b].token

\* C12 as stated: between business operations a Business is active if and
\* only if the webhook of its token is registered at Telegram. Read for the
\* businesses that share their token with no other business.
C12_Original ==
    \A b \in BizIds :
        businesses[b].state = "live" /\ OwnToken(b) =>
            (businesses[b].active <=> businesses[b].token \in hooks)

\* C13: create_business with a token that fails getMe answers
\* InvalidTelegramToken and changes nothing: no Business row, no webhook,
\* no cache key, no reload message.
C13_RejectBeforePersist ==
    [][\A u \in Owners, tok \in BotTokens, nm \in Names, ok \in BOOLEAN :
          CreateBusiness(u, tok, nm, FALSE, ok) =>
             /\ resp'.result = "InvalidTelegramToken"
             /\ UNCHANGED <<businesses, hooks, mgmtCache, pending>>]_vars

\* A create was rejected while a business id was still free.
C13_Witness ==
    /\ resp = Resp("create_business", NULL, "InvalidTelegramToken")
    /\ FreeBizIds(businesses) # {}

\* The row the create just stored, for a create that took id b.
JustCreated(b, u, tok, nm, ok) ==
    /\ businesses[b].state = "absent"
    /\ b = Oldest(FreeBizIds(businesses))
    /\ CreateBusiness(u, tok, nm, TRUE, ok)

\* C14: create_business with a verified token always stores the Business
\* row; the row is inactive when the webhook registration failed and active
\* when it succeeded.
C14_PersistedEitherWay ==
    [][\A b \in BizIds, u \in Owners, tok \in BotTokens, nm \in Names,
          ok \in BOOLEAN :
          JustCreated(b, u, tok, nm, ok) =>
             /\ resp'.result = "Created"
             /\ businesses'[b].state = "live"
             /\ businesses'[b].owner = u /\ businesses'[b].token = tok
             /\ businesses'[b].active = ok
             /\ \A c \in BizIds \ {b} : businesses'[c] = businesses[c]]_vars

\* Both outcomes of the registration have been stored: an inactive row
\* whose registration failed beside an active row whose webhook is set.
C14_Witness ==
    /\ resp = Resp("create_business", NULL, "Created")
    /\ businesses[1].state = "live" /\ ~businesses[1].active
    /\ businesses[1].token \notin hooks
    /\ businesses[2].state = "live" /\ businesses[2].active
    /\ businesses[2].token \in hooks

\* C15 as stated: update_business given a new telegram_bot_token stores the
\* new token once the old webhook is removed and the new one is set, and
\* keeps the stored token when the webhook update fails.
C15_Original ==
    [][\A b \in BizIds, u \in Owners, d \in UpdateBodies, ok \in BOOLEAN :
          /\ businesses[b].state = "live" /\ businesses[b].owner = u
          /\ d.token # UNSET /\ d.token # businesses[b].token
          /\ UpdateBusiness(b, u, d, ok)
          => IF ok
             THEN /\ businesses'[b].token = d.token
                  /\ d.token \in hooks'
                  /\ businesses[b].token \notin hooks'
             ELSE businesses'[b].token = businesses[b].token]_vars

(***************************************************************************)
(* Properties of the Bot Worker                                            *)
(***************************************************************************)
\* No business operation is in progress and the worker has consumed every
\* reload message published so far.
Quiet == procs[1] = Idle /\ pending = 0

\* The token belongs to no active business any more and its webhook has
\* been removed, so the reload for that change has been published.
Retired(tok) == ActiveWith(businesses, tok) = {} /\ tok \notin hooks

\* C16 as stated: once a business is deleted or deactivated and the worker
\* has processed the reload published for it, every webhook call with the
\* old token is answered 404, however the reload interleaved with the
\* steps of the business operation.
C16_Original ==
    [][\A tok \in BotTokens :
          Quiet /\ Retired(tok) /\ Webhook(tok) => resp'.result = "NotFound"]_vars

\* The webhook request in progress is answered in this step.
Answers(result) ==
    /\ wk.h.pc # "idle"
    /\ wk'.h.pc = "idle"
    /\ resp'.op = "webhook"
    /\ resp'.result = result

\* The business table has not changed since the webhook request arrived,
\* and then as now an active business carries its token with the webhook
\* registered and no business operation in progress.
ServedToken ==
    /\ wk.h.seen = businesses
    /\ ActiveWith(businesses, wk.h.tok) # {}
    /\ wk.h.tok \in hooks
    /\ procs[1] = Idle

\* C17 as stated: a webhook call that arrives after create_business or an
\* activation completed with the webhook registered is dispatched and never
\* answered 404.
C17_Original == [][ServedToken => ~Answers("NotFound")]_vars

\* get_bot returns None in this step: the handler goes on to reload, or
\* answers 404 after its retry.
GetBotNone ==
    /\ wk.h.pc \in {"get", "dbget", "gsetex"}
    /\ \/ wk'.h.reloads = wk.h.reloads + 1
       \/ Answers("NotFound")

\* get_bot returns an entry in this step.
GetBotEntry == wk.h.pc # "found" /\ wk'.h.pc = "found"

\* C18 as stated, in its first half: get_bot returns a registry entry for
\* every token of an active business, whatever self.bots and the shared
\* cache hold.
C18_Original ==
    [][GetBotNone => ActiveWith(businesses, wk.h.tok) = {}]_vars

\* C19: after a get_bot miss webhook_handler runs reload_all_bots exactly
\* once and get_bot exactly once more; it answers 404 exactly when that
\* retry misses, and otherwise dispatches with the bot, dispatcher and
\* business_id of the entry self.bots held for the token when get_bot
\* returned.
C19_ReloadOnceRetryOnce ==
    [][/\ GetBotEntry => wk'.h.entry = bots'[wk'.h.tok]
       /\ Answers("NotFound") =>
             /\ wk.h.lookups = 2 /\ wk.h.reloads = 1
             /\ resp'.arg.business = NoBiz
       /\ Answers("Dispatched") =>
             /\ resp'.arg.business = wk.h.entry /\ wk.h.entry # NoBiz
             /\ resp'.arg.tok = wk.h.tok
             /\ \/ wk.h.lookups = 1 /\ wk.h.reloads = 0
                \/ wk.h.lookups = 2 /\ wk.h.reloads = 1
       /\ GetBotNone =>
             IF wk.h.lookups = 1
             THEN wk'.h.pc \in {"close", "scan"} /\ wk'.h.lookups = 1
             ELSE Answers("NotFound")
       /\ wk.h.pc \in {"query", "setex"} /\ wk'.h.pc \notin {"query", "setex"} =>
             /\ wk'.h.lookups = 2 /\ wk'.h.reloads = 1
             /\ wk'.h.pc \in {"found", "get"}]_vars

\* A request was dispatched on its retry, after one reload.
C19_Witness ==
    /\ resp.op = "webhook" /\ resp.result = "Dispatched"
    /\ resp.arg.lookups = 2 /\ resp.arg.reloads = 1
    /\ resp.arg.business = 1

HasLiveBot(b) == TokensOf(bots, b) # {}

\* What a delivered callback leaves: one more message, to the chat of the
\* thread, by the bot of the business of the body, photo or text.
Delivered(body, kind) ==
    /\ resp'.result = "ok"
    /\ outbox' = Append(outbox, [chat |-> ChatOf(body.thread),
                                 business |-> body.business, kind |-> kind])

NoMessage(body) ==
    resp'.result \in {"MissingFields", "InvalidMessage", "MissingText",
                      "UserNotFound", "BotNotFound"} => UNCHANGED outbox

FreeFor(r) ==
    \A i \in DOMAIN bookings :
        /\ bookings[i].table = r.table
        /\ ~bookings[i].cancelled
        /\ bookings[i].date = r.date
        => \/ BEnd(r) <= BStart(bookings[i])
           \/ BStart(r) >= BEnd(bookings[i])

\* C22: a book_table call that passes the table, capacity and TGUser checks
\* is accepted exactly when no non-cancelled booking of that table and date
\* meets the candidate interval (one that starts where another ends is
\* accepted); accepted, it adds the booking and sets the table to booked;
\* rejected, it answers 409 and changes neither bookings nor the table.
C22_AcceptIffFree ==
    [][\A r \in SlotRequests :
          BookTable(r) /\ BookPrecheck(tables, r) = "pass"
          => IF FreeFor(r)
             THEN /\ resp'.result = "Created"
                  /\ Len(bookings') = Len(bookings) + 1
                  /\ SubSeq(bookings', 1, Len(bookings)) = bookings
                  /\ LET b == bookings'[Len(bookings')] IN
                        /\ ~b.cancelled
                        /\ <<b.table, b.tg, b.guests, b.date, b.time, b.dur>>
                           = <<r.table, r.tg, r.guests, r.date, r.time, r.dur>>
                  /\ tables' = [tables EXCEPT ![r.table].status = "booked"]
             ELSE /\ resp'.result = "Conflict"
                  /\ UNCHANGED <<bookings, tables>>]_vars

\* The last request was accepted although its booking starts exactly where
\* an earlier non-cancelled booking of the table and date ends.
C22_Witness ==
    /\ resp.op = "book" /\ resp.result = "Created"
    /\ Len(bookings) >= 2
    /\ LET new == bookings[Len(bookings)] IN
       \E i \in 1 .. Len(bookings) - 1 :
          /\ bookings[i].table = new.table /\ bookings[i].date = new.date
          /\ ~bookings[i].cancelled
          /\ BEnd(bookings[i]) = BStart(new)
          /\ tables[new.table].status = "booked"

\* Another booking of the table of booking id is not cancelled.
OthersRemain(id) ==
    \E j \in DOMAIN bookings :
        j # id /\ bookings[j].table = bookings[id].table /\ ~bookings[j].cancelled

\* C23: cancel_booking by the owner marks a non-cancelled booking cancelled
\* and makes the table available exactly when no other non-cancelled
\* booking of that table remains; on a cancelled booking it answers 400 and
\* changes neither booking nor table; no step makes a cancelled booking
\* non-cancelled again.
C23_CancelResets ==
    [][/\ \A id \in DOMAIN bookings :
            CancelBooking(id, OwnerOf(bookings[id].table))
            => IF bookings[id].cancelled
               THEN resp'.result = "BadRequest" /\ UNCHANGED <<bookings, tables>>
               ELSE /\ resp'.result = "ok"
                    /\ bookings' = [bookings EXCEPT ![id].cancelled = TRUE]
                    /\ tables' = IF OthersRemain(id) THEN tables
                                 ELSE [tables EXCEPT
                                         ![bookings[id].table].status = "available"]
       /\ \A i \in DOMAIN bookings :
            bookings[i].cancelled
            => i \in DOMAIN bookings' /\ bookings'[i].cancelled]_vars

\* One of two bookings of a table was cancelled and the table stayed
\* booked for the other.
C23_Witness ==
    /\ resp.op = "cancel" /\ resp.result = "ok"
    /\ \E i, j \in DOMAIN bookings :
          /\ i # j /\ bookings[i].table = bookings[j].table
          /\ bookings[i].cancelled /\ ~bookings[j].cancelled
          /\ tables[bookings[i].table].status = "booked"

\* C24 as stated: a bulk resize of a business with C active tables to a
\* target T > C creates exactly T-C tables numbered consecutively from the
\* maximum existing table_number + 1, leaves every active table at the
\* default capacity and reports created = T-C, updated = the number of
\* existing tables whose capacity differed, deleted = 0 and total = T. Read
\* for a business that has an active table, so that the maximum exists.
C24_Original ==
    [][\A u \in Owners, target \in Targets, cap \in Capacities :
          LET act   == ActiveTables(tables, 1)
              C     == Cardinality(act)
              first == MaxTableNumber(tables, act) + 1
              new   == DOMAIN tables' \ DOMAIN tables
          IN
          /\ BusinessCheck(businesses, 1, u) = "pass"
          /\ target > C /\ C >= 1
          /\ resp'.op = "bulk_tables"
          /\ BulkUpdateTables(1, u, target, cap)
          => /\ resp'.result = "ok"
             /\ resp'.arg = [created |-> target - C,
                             updated |-> Cardinality({t \in act :
                                             tables[t].capacity # cap}),
                             deleted |-> 0, total |-> target]
             /\ Cardinality(new) = target - C
             /\ {tables'[t].number : t \in new} = first .. first + (target - C) - 1
             /\ \A t \in new : TableBiz(t) = 1 /\ tables'[t].active
             /\ \A t \in ActiveTables(tables', 1) : tables'[t].capacity = cap]_vars

\* C25 as stated: a bulk resize to a target below the active count that
\* finds a non-cancelled booking dated today or later on a table outside the
\* kept first `target` tables answers 400 and leaves every previously
\* active table active, whichever of the tables to remove has the booking.
C25_Original ==
    [][\A target \in Targets :
          LET act      == ActiveTables(tables, 1)
              existing == ByNumber(tables, act)
              leaving  == Range(SubSeq(existing, target + 1, Len(existing)))
          IN
          /\ target < Len(existing)
          /\ \E t \in leaving : HasActiveBookings(bookings, t, Today(now))
          /\ resp'.op = "bulk_tables"
          /\ BulkUpdateTables(1, "alice", target, 1)
          => /\ resp'.result = "BadRequest"
             /\ \A t \in act : tables'[t].active]_vars

\* C28 as stated: every non-cancelled booking has num_guests at most the
\* capacity of its table, also after update_table and bulk_update_tables
\* calls that change the capacity.
C28_Original ==
    \A i \in DOMAIN bookings :
        ~bookings[i].cancelled /\ bookings[i].table \in DOMAIN tables
        => bookings[i].guests <= tables[bookings[i].table].capacity

\* A folded keyword appears in one of the seven fields of the dish.
Appears(row, k) ==
    \/ \E list \in {row.tags, row.ingredients, row.allergens} :
          \E i \in DOMAIN list : LowerText(list[i]) = k
    \/ \E text \in {row.title, row.description, row.category, row.cuisine} :
          Contains(LowerText(text), k)

\* C26 as stated: a search with keywords returns every dish that passes the
\* other filters and in which a case-folded keyword appears in the tags,
\* ingredients, allergens, title, description, category or cuisine, and no
\* dish in which none appears.
C26_Original ==
    [][resp'.op = "search" /\ SearchDishes(resp'.arg)
       => LET q == resp'.arg IN
          q.keywords # <<>>
          => resp'.result =
                {d \in DOMAIN dishes :
                    /\ PassesFilters(dishes[d], q)
                    /\ \E k \in Folded(q.keywords) : Appears(dishes[d], k)}]_vars

\* C27 as stated: after any sequence of create_dish, update_dish and
\* delete_dish calls, failed ones included, the image_path of every
\* persisted dish names a file that exists in the upload directory.
C27_Original ==
    \A d \in DOMAIN dishes :
        dishes[d].state = "live" => dishes[d].image \in uploads


\* The request procs[1] holds has had its Telegram call answered.
Called(b) == procs[1].pc = "save" /\ procs[1].op # "delete" /\ procs[1].b = b

\* A step of a request that does not switch is_active.
QuietUpdate(b, u, d) ==
    procs[1] = Idle /\ ~Switches(b, u, d) /\ UpdateBusiness(b, u, d, TRUE)

\* C29: update_business calls register_bot_webhook or
\* unregister_bot_webhook before it persists a switched is_active: the
\* flag of a business changes only in the save of a request whose Telegram
\* call has returned, to true only when register_bot_webhook returned
\* True (a request whose registration failed leaves the business
\* inactive), to false after unregister_bot_webhook whatever it returned.
\* The webhook, the bot_token key and the reload channel change only in
\* the Telegram call of a request whose is_active differs from the stored
\* one; a request with the stored value (or none) leaves them and the flag
\* alone. A name or description the body does not carry is not changed.
C29_ToggleOrder ==
    [][/\ \A b \in BizIds :
            businesses'[b].active # businesses[b].active =>
               /\ Called(b)
               /\ IF businesses'[b].active
                  THEN procs[1].op = "activate" /\ procs[1].ok
                  ELSE procs[1].op = "deactivate"
       /\ \A ok \in BOOLEAN :
             procs[1].pc = "hook" /\ CallTelegram(ok) =>
                /\ UNCHANGED businesses
                /\ procs'[1] # Idle => procs'[1].ok = ok
                /\ ok => IF procs[1].op = "activate"
                         THEN businesses[procs[1].b].token \in hooks'
                         ELSE businesses[procs[1].b].token \notin hooks'
       /\ procs[1].pc = "save" /\ procs[1].op = "activate" /\ ~procs[1].ok =>
             ~businesses'[procs[1].b].active
       /\ hooks' # hooks \/ mgmtCache' # mgmtCache \/ pending' > pending =>
             /\ procs[1].pc = "hook"
             /\ UNCHANGED businesses
             /\ IF procs[1].op = "activate"
                THEN ~businesses[procs[1].b].active
                ELSE businesses[procs[1].b].active
       /\ procs[1] = Idle /\ procs'[1].pc = "hook" =>
             businesses[procs'[1].b].active = (procs'[1].op # "activate")
       /\ \A b \in BizIds, u \in Owners, d \in PutBodies :
             QuietUpdate(b, u, d) =>
                /\ UNCHANGED <<hooks, mgmtCache, pending>>
                /\ BizRow(businesses', b).active = BizRow(businesses, b).active
                /\ d.name = UNSET /\ d.description = UNSET =>
                      UNCHANGED businesses
                /\ d.name = UNSET =>
                      BizRow(businesses', b).name = BizRow(businesses, b).name
                /\ d.description = UNSET =>
                      BizRow(businesses', b).description
                          = BizRow(businesses, b).description
       /\ procs[1].pc = "save" /\ procs[1].op # "delete" =>
             /\ procs[1].name = UNSET =>
                   businesses'[procs[1].b].name = businesses[procs[1].b].name
             /\ procs[1].description = UNSET =>
                   businesses'[procs[1].b].description
                       = businesses[procs[1].b].description
      ]_vars

\* A business was switched off and on again: the registration of the
\* second request succeeded and its save has stored is_active=true, after
\* an activation whose registration failed left the other business
\* inactive under a new name.
C29_Witness ==
    /\ resp = Resp("update_business", NULL, "ok")
    /\ procs[1] = Idle
    /\ businesses[1].active /\ businesses[1].description = "d1"
    /\ businesses[1].name = "n0"
    /\ ~businesses[2].active /\ businesses[2].name = "n1"
    /\ "tokB" \in hooks
    /\ pending > 0


\* The unused codes of a contact.
UnusedOf(c) == {i \in DOMAIN codes : codes[i].contact = c /\ ~codes[i].used}

\* Its unused codes with fewer than 5 unused codes created after them.
MostRecentUnused(c) ==
    {i \in UnusedOf(c) :
        Cardinality({j \in UnusedOf(c) :
                        codes[j].created > codes[i].created}) < 5}

C31_Original ==
    [][/\ resp'.op = "register_bot"
          /\ RegisterCall(resp'.arg.tok, mgmtCache'[resp'.arg.tok],
                          resp'.arg.tg, resp'.arg.cache, resp'.arg.pub)
          => (resp'.result = "True" <=> SetAccepted(resp'.arg.tg))
       /\ resp'.op = "unregister_bot"
          /\ UnregisterCall(resp'.arg.tok, resp'.arg.tg, resp'.arg.cache,
                            resp'.arg.pub)
          => (resp'.result = "True" <=> DeleteAnswered(resp'.arg.tg))
      ]_vars

\* The tokens that have an entry in self.bots.
Held(bts) == {t \in BotTokens : bts[t] # NoBiz}

\* The step of reload_all_bots in which self.bots.clear() runs.
Clears == Held(bots) # {} /\ bots' = NoMapping

\* The listener's reload_all_bots returns.
ReloadEnds == wk.r.pc # "idle" /\ wk'.r.pc = "idle"

\* One entry per token that an active business uses, bound to an active
\* business with that token, and no other entry.
OnePerActiveToken(bts, bz) ==
    \A t \in BotTokens :
        IF \E b \in BizIds : bz[b].state = "live" /\ bz[b].active /\ bz[b].token = t
        THEN /\ bts[t] \in BizIds
             /\ bz[bts[t]].state = "live" /\ bz[bts[t]].active
             /\ bz[bts[t]].token = t
        ELSE bts[t] = NoBiz

\* C32 as stated, its first part: when self.bots is cleared, every bot
\* session that was in it has been closed.
C32_Original ==
    [][Clears =>
          \A t \in Held(bots) :
              \/ t \in shut
              \/ t = Head(wk.r.rest) /\ t \notin wk'.r.unclosed]_vars

\* C32 (amended): when reload_all_bots runs without interleaving, close()
\* has been called on the session of every bot that was in the map before
\* the map is cleared, and each of them is closed unless its close()
\* raised, which is logged; when the reload returns the map holds exactly
\* one entry per distinct token used by an active business and no entry
\* for an inactive or deleted business.
C32_ReloadAlone ==
    [][/\ Clears =>
             \A t \in Held(bots) :
                 \/ t \in shut
                 \/ t \in wk.r.unclosed
                 \/ t = Head(wk.r.rest)
       /\ ReloadEnds =>
             /\ OnePerActiveToken(bots', businesses)
             /\ shut' = {}
      ]_vars

\* A reload has returned that found two bots loaded, one of a business
\* that is deleted now and one of a business that is switched off, and
\* loaded the bot of the remaining active business.
C32_Witness ==
    /\ wk.r.pc = "idle" /\ pending = 0
    /\ businesses[1].state = "live" /\ ~businesses[1].active
    /\ businesses[2].state = "live" /\ businesses[2].active
    /\ businesses[2].token = "tokA"
    /\ bots = [NoMapping EXCEPT !["tokA"] = 2]
    /\ botCache = bots


(***************************************************************************)
(* One worker that is restarted while the keys it wrote stay in Redis      *)
(***************************************************************************)
\* The keys register_bot sets for the businesses of m, over the keys
\* already there: setex replaces a key and leaves every other key alone.
CacheOver(cache, m) ==
    [t \in BotTokens |-> IF m[t] # NoBiz THEN m[t] ELSE cache[t]]

KeysOver(keys, m) ==
    [b \in BizIds |-> IF KeysFor(m)[b] # NoToken THEN KeysFor(m)[b] ELSE keys[b]]

\* The worker process stops and starts again: on_shutdown cancels the
\* listener, so a message not yet taken is never handled, and on_startup
\* builds a new BotRegistry and runs load_active_bots.  Nothing clears the
\* cache keys of the process that stopped.
WorkerRestart ==
    /\ wk = WkIdle
    /\ pending' = 0
    /\ bots' = ActiveBots(businesses)
    /\ shut' = {}
    /\ botCache' = CacheOver(botCache, ActiveBots(businesses))
    /\ bizCache' = KeysOver(bizCache, ActiveBots(businesses))
    /\ UNCHANGED <<businesses, dishes, uploads, hooks, mgmtCache, wk, outbox, chatVars>>
    /\ UNCHANGED <<bookVars, authVars, procs, resp>>

\* Business 1 is active on tokA and the running worker has loaded it.
InitRestart ==
    /\ tables = InitTables
    /\ bookings = <<>>
    /\ InitAuthIdle
    /\ procs = [p \in Procs |-> Idle]
    /\ resp = Resp("none", NULL, "none")
    /\ businesses = [b \in BizIds |->
           IF b = 1 THEN NewBusiness("alice", "tokA", "n0") ELSE AbsentBiz]
    /\ dishes = [d \in DishIds |-> GoneDish]
    /\ uploads = {}
    /\ hooks = {"tokA"}
    /\ mgmtCache = [NoMapping EXCEPT !["tokA"] = 1]
    /\ pending = 0
    /\ bots = [NoMapping EXCEPT !["tokA"] = 1]
    /\ shut = {}
    /\ botCache = bots
    /\ bizCache = KeysFor(botCache)
    /\ wk = WkIdle
    /\ outbox = <<>>
    /\ tgUsers = NoChats
    /\ aiPosts = {}

NextRestart ==
    \/ \E tok \in BotTokens, ok \in BOOLEAN :
           CreateBusiness("alice", tok, "n0", TRUE, ok)
    \/ ReloadMessage
    \/ WorkerRestart
    \/ \E body \in CallbackBodies, photoOk \in BOOLEAN, textOk \in BOOLEAN :
           AiCallback(body, photoOk, textOk)

SpecRestart == InitRestart /\ [][NextRestart]_vars

\* Tokens that more than one active business is configured with, and the
\* businesses load_active_bots passes over for them.
SharedTokens(bz) == {t \in BotTokens : Cardinality(ActiveWith(bz, t)) > 1}

Discarded(bz) ==
    {b \in DOMAIN bz : \E t \in SharedTokens(bz) :
        b \in ActiveWith(bz, t) /\ b # Latest(ActiveWith(bz, t))}

\* C33: after load_active_bots the registry entry of a token shared by
\* several active businesses belongs to the one created last, and a message
\* the AI callback sends for a discarded business, through
\* get_bot_by_business, never goes out through an entry bound to another
\* business.
C33_Original ==
    [][/\ (ReloadMessage \/ WorkerRestart)
          => \A t \in SharedTokens(businesses) :
                 bots'[t] = Latest(ActiveWith(businesses, t))
       /\ (/\ resp'.op = "ai_callback"
           /\ Len(outbox') > Len(outbox)
           /\ resp'.arg.business \in Discarded(businesses))
          => outbox'[Len(outbox')].business = resp'.arg.business]_vars


(***************************************************************************)
(* The reload listener from its subscription to its end                    *)
(***************************************************************************)
\* The listener task after it has left its loop: cancelled by on_shutdown
\* (it unsubscribes and closes the pubsub), or through `except Exception`
\* (it only logs; the subscription stays and nothing reads it).
RStopped == [RIdle EXCEPT !.pc = "stopped"]

REnded == [RIdle EXCEPT !.pc = "ended"]

\* load_active_bots: the Business query raises.  Nothing in
\* load_active_bots or reload_all_bots catches it, so it reaches the
\* `except Exception` of the listener.
ReloadQueryRaises ==
    /\ wk.r.pc = "query"
    /\ wk' = [wk EXCEPT !.r = REnded]
    /\ UNCHANGED <<bizVars, bots, shut, botCache, bizCache, outbox, chatVars>>
    /\ UNCHANGED <<bookVars, authVars, procs, resp>>

\* on_shutdown cancels the listener task wherever it waits.
ListenerCancel ==
    /\ wk.r.pc \notin {"ended", "stopped"}
    /\ wk' = [wk EXCEPT !.r = RStopped]
    /\ UNCHANGED <<bizVars, bots, shut, botCache, bizCache, outbox, chatVars>>
    /\ UNCHANGED <<bookVars, authVars, procs, resp>>

\* The listener has subscribed and messages are waiting on the channel.
InitListen ==
    /\ tables = InitTables
    /\ bookings = <<>>
    /\ InitAuthIdle
    /\ procs = [p \in Procs |-> Idle]
    /\ resp = Resp("none", NULL, "none")
    /\ businesses \in RegistryRows
    /\ dishes = [d \in DishIds |-> GoneDish]
    /\ uploads = {}
    /\ hooks = {}
    /\ mgmtCache = NoMapping
    /\ pending \in 1..MaxPending
    /\ bots \in LeftLoaded
    /\ shut = {}
    /\ botCache = bots
    /\ bizCache = KeysFor(botCache)
    /\ wk = WkIdle
    /\ outbox = <<>>
    /\ tgUsers = NoChats
    /\ aiPosts = {}

\* One step of the listener task: its awaits return or raise.
ListenerStep ==
    \/ ListenerTake
    \/ \E ok \in BOOLEAN : ReloadClose("r", ok)
    \/ ReloadScan("r")
    \/ ReloadQuery("r")
    \/ ReloadQueryRaises
    \/ ReloadSetex("r")

NextListen ==
    \/ ListenerStep
    \/ ListenerCancel

\* The event loop resumes the listener whenever the call it waits for has
\* answered, and every call answers: by returning or by raising.
SpecListen == InitListen /\ [][NextListen]_vars /\ WF_vars(ListenerStep)

\* C34: every message waiting on bot_worker:reload is eventually taken by
\* the listener, which starts its reload_all_bots, also after an earlier
\* reload raised, unless the listener was cancelled by on_shutdown.  (The
\* message whose own reload raised is not counted against the claim here,
\* and the part about unsubscribing on cancellation is left out.)
C34_Original ==
    pending > 0 ~> (wk.r.pc = "stopped" \/ pending = 0)


(***************************************************************************)
(* handle_text_message, split at its awaits, for two messages in flight    *)
(***************************************************************************)
MaxStamp == 2           \* seconds of the clock while messages are handled

Stamps == 0..MaxStamp

\* The handler's own TGUser object once it has been created or saved:
\* without a thread_id it is given one from the clock and is saved next,
\* with one the message goes to the AI endpoint.
AfterTouch(c, row) ==
    IF row.thread = NoThread
    THEN [c EXCEPT !.pc = "assign", !.row = [row EXCEPT !.thread = ThreadId(c.user, now)]]
    ELSE [c EXCEPT !.pc = "post", !.row = row]

\* TGUser.filter(telegram_id=...).first() answers (the Business query
\* that follows reads nothing that changes here).
TextStart(p, u) ==
    /\ procs[p] = Idle
    /\ procs' = [procs EXCEPT ![p] =
           [pc |-> "touch", op |-> "text", user |-> u, row |-> tgUsers[u]]]
    /\ UNCHANGED <<tgUsers, aiPosts, bots, shut, botCache, bizCache, wk, outbox>>
    /\ UNCHANGED <<bizVars, bookVars, authVars, resp>>

\* TGUser.create for an account without a row, which the unique
\* telegram_id refuses when another handler created it meanwhile (the
\* handler apologises and ends); user.save() otherwise, which writes every
\* column of the handler's object.
TextTouch(p) ==
    /\ procs[p].pc = "touch"
    /\ LET c == procs[p]
           created == [state |-> "live", thread |-> NoThread]
       IN IF c.row.state = "absent"
          THEN IF tgUsers[c.user].state = "live"
               THEN /\ procs' = [procs EXCEPT ![p] = Idle]
                    /\ UNCHANGED tgUsers
               ELSE /\ tgUsers' = [tgUsers EXCEPT ![c.user] = created]
                    /\ procs' = [procs EXCEPT ![p] = AfterTouch(c, created)]
          ELSE /\ tgUsers' = [tgUsers EXCEPT ![c.user] = c.row]
               /\ procs' = [procs EXCEPT ![p] = AfterTouch(c, c.row)]
    /\ UNCHANGED <<aiPosts, bots, shut, botCache, bizCache, wk, outbox>>
    /\ UNCHANGED <<bizVars, bookVars, authVars, resp>>

\* user.save() after the thread_id was set.
TextAssign(p) ==
    /\ procs[p].pc = "assign"
    /\ tgUsers' = [tgUsers EXCEPT ![procs[p].user] = procs[p].row]
    /\ procs' = [procs EXCEPT ![p].pc = "post"]
    /\ UNCHANGED <<aiPosts, bots, shut, botCache, bizCache, wk, outbox>>
    /\ UNCHANGED <<bizVars, bookVars, authVars, resp>>

\* send_chat_action, then the POST to the AI endpoint with the handler's
\* thread_id; typing: send_chat_action did not raise.
TextPost(p, typing) ==
    /\ procs[p].pc = "post"
    /\ aiPosts' = IF typing
                  THEN aiPosts \cup {[user |-> procs[p].user,
                                      thread |-> procs[p].row.thread]}
                  ELSE aiPosts
    /\ procs' = [procs EXCEPT ![p] = Idle]
    /\ UNCHANGED <<tgUsers, bots, shut, botCache, bizCache, wk, outbox>>
    /\ UNCHANGED <<bizVars, bookVars, authVars, resp>>

\* Rows the accounts can have before a message: none, one that never
\* wrote a text, one with the thread_id of an earlier second.
ChatRows(u) ==
    {AbsentChat, [state |-> "live", thread |-> NoThread],
     [state |-> "live", thread |-> ThreadId(u, 0)]}

ChatTables ==
    {rows \in [TgIds -> UNION {ChatRows(u) : u \in TgIds}] :
        \A u \in TgIds : rows[u] \in ChatRows(u)}

InitChat ==
    /\ tables = InitTables
    /\ bookings = <<>>
    /\ InitAuthIdle
    /\ procs = [p \in Procs |-> Idle]
    /\ resp = Resp("none", NULL, "none")
    /\ businesses = SeedBusinesses
    /\ dishes = SeedDishes
    /\ uploads = SeedUploads
    /\ hooks = BotTokens
    /\ mgmtCache = SeedMapping
    /\ pending = 0
    /\ bots = SeedMapping
    /\ shut = {}
    /\ botCache = SeedMapping
    /\ bizCache = KeysFor(botCache)
    /\ wk = WkIdle
    /\ outbox = <<>>
    /\ tgUsers \in ChatTables
    /\ aiPosts = {}

NextChat ==
    \/ \E p \in Procs, u \in TgIds : TextStart(p, u)
    \/ \E p \in Procs : TextTouch(p)
    \/ \E p \in Procs : TextAssign(p)
    \/ \E p \in Procs, typing \in BOOLEAN : TextPost(p, typing)
    \/ \E t \in Stamps : Elapse(t)

SpecChat == InitChat /\ [][NextChat]_vars

\* TGUser.filter(thread_id=...).first() of the AI callback.
NoTgUser == 0

ResolveThread(rows, th) ==
    IF \E u \in TgIds : rows[u].state = "live" /\ rows[u].thread = th
    THEN CHOOSE u \in TgIds : rows[u].state = "live" /\ rows[u].thread = th
    ELSE NoTgUser

\* C35: every thread_id that was posted to the AI endpoint for an account
\* resolves to that account's TGUser row, also after two messages of the
\* account were handled at once.  (Checked only when no handler is in
\* flight, so a thread_id that is missing for a moment does not count.)
C35_Original ==
    (\A p \in Procs : procs[p] = Idle)
        => \A m \in aiPosts : ResolveThread(tgUsers, m.thread) = m.user


(***************************************************************************)
(* verify_code_and_login, split at its awaits, for two requests in flight  *)
(***************************************************************************)
\* The VerificationCode query answers and the checks run on the row as it
\* was read.  A code that matches no row takes the failed-attempt path.
VerifyRead(p, c, k) ==
    /\ procs[p] = Idle
    /\ LET found == Matching(codes, c, HashCode(k)) IN
       IF found = {}
       THEN /\ \A i \in FailedTargets(codes, c) : codes[i].attempts < AttemptsCap
            /\ codes' = IncrementFailed(codes, c)
            /\ procs' = [procs EXCEPT ![p] =
                   [pc |-> "done", op |-> "verify",
                    result |-> "InvalidVerificationCode"]]
       ELSE /\ \E i \in Newest(codes, found) :
                 procs' = [procs EXCEPT ![p] =
                     IF VerifyCheck(codes[i], now) # "pass"
                     THEN [pc |-> "done", op |-> "verify",
                           result |-> VerifyCheck(codes[i], now)]
                     ELSE [pc |-> "user", op |-> "verify", contact |-> c,
                           row |-> i, read |-> codes[i], user |-> 0]]
            /\ UNCHANGED codes
    /\ UNCHANGED <<now, users, sessions, nextSid, bookVars, resp, botVars>>

\* _get_or_create_user: User.get_or_none answers.
VerifyUserGet(p) ==
    /\ procs[p].pc = "user"
    /\ LET c == procs[p]
           known == FindUser(users, c.contact, c.read.ctype)
       IN procs' = [procs EXCEPT ![p] =
              IF known = {} THEN [c EXCEPT !.pc = "create"]
              ELSE [c EXCEPT !.pc = "mark", !.user = CHOOSE u \in known : TRUE]]
    /\ UNCHANGED <<authVars, bookVars, resp, botVars>>

\* _get_or_create_user: User.create, which the unique email / phone column
\* refuses when another request created the user meanwhile.
VerifyUserCreate(p) ==
    /\ procs[p].pc = "create"
    /\ LET c == procs[p] IN
       IF FindUser(users, c.contact, c.read.ctype) # {}
       THEN /\ procs' = [procs EXCEPT ![p] =
                   [pc |-> "done", op |-> "verify", result |-> "ServerError"]]
            /\ UNCHANGED users
       ELSE /\ users' = Append(users, NewUser(c.contact, c.read.ctype))
            /\ procs' = [procs EXCEPT ![p] =
                   [c EXCEPT !.pc = "mark", !.user = Len(users) + 1]]
    /\ UNCHANGED <<now, codes, sessions, nextSid, bookVars, resp, botVars>>

\* verification.is_used = True; verification.save() writes the row as this
\* request read it, with the flag set.
VerifyMark(p) ==
    /\ procs[p].pc = "mark"
    /\ codes' = [codes EXCEPT ![procs[p].row] =
                     [procs[p].read EXCEPT !.used = TRUE]]
    /\ procs' = [procs EXCEPT ![p].pc = "session"]
    /\ UNCHANGED <<now, users, sessions, nextSid, bookVars, resp, botVars>>

\* create_session, and the request returns its token.
VerifySession(p) ==
    /\ procs[p].pc = "session"
    /\ sessions' = sessions \cup {NewSession(nextSid + 1, procs[p].user, now)}
    /\ nextSid' = nextSid + 1
    /\ procs' = [procs EXCEPT ![p] =
           [pc |-> "done", op |-> "verify", result |-> "ok"]]
    /\ UNCHANGED <<now, codes, users, bookVars, resp, botVars>>

\* One code was sent at time 0 to a contact that has an account or not.
InitVerifyRace ==
    /\ tables = InitTables
    /\ bookings = <<>>
    /\ now = 0
    /\ \E c \in Contacts :
          /\ codes = <<NewCode(c, "111111", 0, 0)>>
          /\ users \in {<<>>, <<NewUser(c, ContactType(c))>>}
    /\ sessions = {}
    /\ nextSid = 0
    /\ procs = [p \in Procs |-> Idle]
    /\ resp = Resp("none", NULL, "none")
    /\ InitBotIdle

NextVerifyRace ==
    \/ \E p \in Procs, c \in Contacts, k \in CodeValues : VerifyRead(p, c, k)
    \/ \E p \in Procs : VerifyUserGet(p)
    \/ \E p \in Procs : VerifyUserCreate(p)
    \/ \E p \in Procs : VerifyMark(p)
    \/ \E p \in Procs : VerifySession(p)
    \/ \E t \in RaceInstants : Elapse(t)

SpecVerifyRace == InitVerifyRace /\ [][NextVerifyRace]_vars

\* Requests that were answered with a session.
LoggedIn == {p \in Procs : procs[p].pc = "done" /\ procs[p].result = "ok"}

\* C36: of two verify_code_and_login requests in flight with the one code
\* that was sent, at most one succeeds and at most one Session is created.
C36_Original ==
    Cardinality(LoggedIn) <= 1 /\ Cardinality(sessions) <= 1


(***************************************************************************)
(* cancel_booking, split at its awaits, next to book_table                 *)
(***************************************************************************)
\* The booking is read with its table and business, and the checks run.
CancelRead(p, id, u) ==
    /\ procs[p] = Idle
    /\ LET pre == CancelCheck(bookings, id, u) IN
       procs' = [procs EXCEPT ![p] =
           IF pre # "pass" THEN [pc |-> "done", op |-> "cancel", result |-> pre]
           ELSE [pc |-> "cancel", id |-> id, tid |-> bookings[id].table,
                 table |-> tables[bookings[id].table]]]
    /\ UNCHANGED <<bookVars, authVars, resp, botVars>>

\* booking.is_cancelled = True; booking.save()
CancelMark(p) ==
    /\ procs[p].pc = "cancel"
    /\ bookings' = [bookings EXCEPT ![procs[p].id].cancelled = TRUE]
    /\ procs' = [procs EXCEPT ![p].pc = "exists"]
    /\ UNCHANGED <<tables, authVars, resp, botVars>>

\* The exists() query for other bookings of the table answers.
CancelExists(p) ==
    /\ procs[p].pc = "exists"
    /\ procs' = [procs EXCEPT ![p] =
           IF ActiveOnTable(bookings, procs[p].tid)
           THEN [pc |-> "done", op |-> "cancel", result |-> "ok"]
           ELSE [procs[p] EXCEPT !.pc = "free"]]
    /\ UNCHANGED <<bookVars, authVars, resp, botVars>>

\* booking.table.status = AVAILABLE; booking.table.save() writes the table
\* row as this request read it, with the status set.
CancelFree(p) ==
    /\ procs[p].pc = "free"
    /\ tables' = [tables EXCEPT ![procs[p].tid] =
                      [procs[p].table EXCEPT !.status = "available"]]
    /\ procs' = [procs EXCEPT ![p] =
           [pc |-> "done", op |-> "cancel", result |-> "ok"]]
    /\ UNCHANGED <<bookings, authVars, resp, botVars>>

NextBookCancel ==
    \/ \E p \in Procs, r \in BookingRequests : BookScan(p, r)
    \/ \E p \in Procs : BookInsert(p)
    \/ \E p \in Procs : BookSaveTable(p)
    \/ \E p \in Procs, id \in 1 .. MaxBookings, u \in Owners : CancelRead(p, id, u)
    \/ \E p \in Procs : CancelMark(p)
    \/ \E p \in Procs : CancelExists(p)
    \/ \E p \in Procs : CancelFree(p)

SpecBookCancel == InitBookRace /\ [][NextBookCancel]_vars

\* No request is between two of its steps.
AllCompleted == \A p \in Procs : procs[p].pc \in {"idle", "done"}

\* C37: once the book_table and cancel_booking calls in flight have
\* completed, a table with a booking that is not cancelled does not have
\* status available.
C37_Original ==
    AllCompleted =>
        \A t \in DOMAIN tables :
            ActiveOnTable(bookings, t) => tables[t].status # "available"


(***************************************************************************)
(* Table numbers under create_table, delete_table and bulk_update_tables   *)
(***************************************************************************)
TableNumbers == 1 .. MaxRows

\* POST /businesses/{b}/tables: the number must be free among all rows of
\* the business, active or not.
CreateTable(b, u, n, cap) ==
    /\ LET pre == BusinessCheck(businesses, b, u) IN
       IF pre # "pass"
       THEN /\ resp' = Resp("create_table", NULL, pre)
            /\ UNCHANGED tables
       ELSE IF NumberTaken(tables, b, n)
       THEN /\ resp' = Resp("create_table", NULL, "BadRequest")
            /\ UNCHANGED tables
       ELSE /\ Cardinality(TablesOf(tables, b)) < MaxRows
            /\ tables' = [t \in DOMAIN tables \cup {FreshTableId(tables, b)} |->
                             IF t \in DOMAIN tables THEN tables[t]
                             ELSE NewTable(n, cap)]
            /\ resp' = Resp("create_table", NULL, "Created")
    /\ UNCHANGED <<bookings, authVars, procs, botVars>>

NextNumbers ==
    \/ \E u \in Owners, n \in TableNumbers, cap \in Capacities :
          CreateTable(1, u, n, cap)
    \/ \E t \in DOMAIN tables : DeleteTable(t, "alice")
    \/ \E u \in Owners, target \in Targets, cap \in Capacities :
          BulkUpdateTables(1, u, target, cap)

SpecNumbers == InitFloor /\ [][NextNumbers]_vars

\* C38: whatever create_table, delete_table and bulk_update_tables did
\* before, a bulk resize to more tables than the business has active
\* succeeds, with total equal to the target, without a table_number used
\* twice in the business.
C38_Original ==
    [][\A u \in Owners, target \in Targets, cap \in Capacities :
          /\ BusinessCheck(businesses, 1, u) = "pass"
          /\ target > Cardinality(ActiveTables(tables, 1))
          /\ resp'.op = "bulk_tables"
          /\ BulkUpdateTables(1, u, target, cap)
          => /\ resp'.result = "ok"
             /\ resp'.arg.total = target
             /\ \A s, t \in TablesOf(tables', 1) :
                    tables'[s].number = tables'[t].number => s = t]_vars


(***************************************************************************)
(* Two reload_all_bots at once: the listener's and a webhook miss's        *)
(***************************************************************************)
\* The worker over a database that does not change: the listener has one
\* message to take, and webhook requests arrive for any token.
NextOverlap ==
    \/ ListenerTake
    \/ \E k \in Coroutines, ok \in BOOLEAN : ReloadClose(k, ok)
    \/ \E k \in Coroutines : ReloadScan(k)
    \/ \E k \in Coroutines : ReloadQuery(k)
    \/ \E k \in Coroutines : ReloadSetex(k)
    \/ \E tok \in BotTokens : WebhookStart(tok)
    \/ GetBotCached
    \/ GetBotRow
    \/ GetBotSetex
    \/ WebhookDispatch

SpecOverlap == InitRegistry /\ [][NextOverlap]_vars

\* The listener's reload and the reload of the last webhook request have
\* both returned, and nothing is running.
BothReloaded ==
    /\ pending = 0
    /\ wk.r.pc = "idle"
    /\ wk.h.pc = "idle"
    /\ resp.op = "webhook"
    /\ resp.arg.reloads = 1

\* C39: after the listener's reload_all_bots and the one of a webhook miss
\* have both completed, however they interleaved, self.bots is what one
\* uninterrupted reload of the same database gives, the newest business
\* under a shared token, and no bot in it has a closed session.
C39_TwoReloads ==
    BothReloaded => bots = ActiveBots(businesses) /\ shut = {}

\* Both reloads have completed, and the webhook request answered 404 for
\* the token of an active business: the listener cleared the map and the
\* cache between that request's own reload and its second get_bot.
C39_Witness ==
    /\ BothReloaded
    /\ resp.result = "NotFound"
    /\ ActiveBots(businesses)[resp.arg.tok] # NoBiz


(***************************************************************************)
(* Bookings that run past midnight                                         *)
(***************************************************************************)
\* Two rows of the same table, neither cancelled, whose intervals of real
\* time intersect.
Collide(bks, i, j) ==
    /\ i # j
    /\ bks[i].table = bks[j].table
    /\ ~bks[i].cancelled /\ ~bks[j].cancelled
    /\ Intersects(bks[i], bks[j])

\* C40: no two non-cancelled bookings of a table overlap in real time,
\* also when their booking_date differs because one of them runs past
\* midnight.
C40_Original ==
    \A i, j \in DOMAIN bookings : ~Collide(bookings, i, j)

====
